---- MODULE Spec2Model ----
(***************************************************************************)
(* Verification model of the plankton_pi_package peripheral scripts.       *)
(*                                                                         *)
(*   SpecLock    several printer_script instances racing on the PID file   *)
(*               /tmp/printer.lock (acquire_lock / release_lock), with the *)
(*               host killing instances at any point.                      *)
(*   SpecMain    one printer_script instance in full: main(), the command  *)
(*               handlers, HSK33Printer._initialize and _send as a call    *)
(*               stack, against a USB device that may fail.                *)
(*   SpecSend    a direct call of HSK33Printer._send on commands around    *)
(*               the 1024-byte chunk size.                                 *)
(*   SpecButton  button_script's debounced press callback.                 *)
(*                                                                         *)
(* The lock file is modelled as a directory entry (lockIno) naming an      *)
(* inode whose text is held in inoText: open(..., 'w') truncates or        *)
(* creates, the buffered write reaches the inode when the with-block       *)
(* closes the file, and os.remove unlinks the directory entry only.        *)
(***************************************************************************)
EXTENDS Integers, Naturals, Sequences, FiniteSets, TLC

VARIABLES
    \* ---- /tmp/printer.lock and the printer_script instances
    lockIno,        \* 0: LOCK_FILE absent; k > 0: it names inode k
    inoText,        \* inode -> text of the file: 0 is "", k > 0 is str(pid k)
    pc,             \* instance -> position in main / acquire_lock / release_lock
    pid,            \* instance -> local variable pid of acquire_lock / release_lock
    fd,             \* instance -> inode opened for writing at line 38 (0: none)
    lock,           \* instance -> main's local variable lock: "none", "true", "false"
    \* ---- history of the lock protocol (read by the properties only)
    lone,           \* instance -> no other instance changed LOCK_FILE since its call began
    stale,          \* instance -> LOCK_FILE held the PID of a dead process when its call began
    quiet,          \* instance -> no other instance was alive when its call began
    \* ---- the instance whose printer code is modelled in full (instance Me)
    out,            \* instance -> JSON lines written to stdout, in order
    stack,          \* frames of the calls in progress below main(), innermost last
    flow,           \* "run", "ret" (a call has just returned) or "raise"
    exc,            \* the exception being raised ("none" when flow # "raise")
    rv,             \* the value the last call returned (for _check_paper)
    device,         \* self.device is not None
    printer,        \* main's local variable printer is not None
    cmd,            \* main's local variable cmd: the parsed line
    nread,          \* lines read from stdin so far
    wire,           \* chunks written to the OUT endpoint since the last line was
                    \* read, recorded while probe is set
    probe,          \* a specification records the writes (TRUE) or does not
    faults,         \* failures the USB device may still produce
    \* ---- button_script
    now,            \* value time.time() returns next, in units of 0.1 s
    last_press_time,
    pressed,        \* timestamps of the buttonPressed messages written so far
    presses,        \* press events the callback has handled
    \* ---- relay_script
    relays,         \* value of each OutputDevice: TRUE after on() (released),
                    \* FALSE after off() (relay activated, active low)
    rl_pc,          \* position of relay_script
    channels,       \* trigger_relays' argument
    rl_idx,         \* index of the for loop running in trigger_relays
    rl_out,         \* status lines relay_script has written
    rl_nread,       \* lines relay_script has read
    \* ---- printer_init_script
    pi_pc,          \* position of printer_init_script
    attempt,        \* initialize_printer's local variable
    config_attempts,\* initialize_printer's local variable
    pi_device,      \* self.device is set
    pi_out,         \* status lines printer_init_script has written
    \* ---- webhook_script
    action_queue,   \* the queue.Queue
    wh_req,         \* position of each request's handler thread
    wh_thr,         \* position of the clear_queue thread each request starts
    wh_out,         \* action lines webhook_script has written
    \* ---- firebase_script
    fb_doc,         \* the device document's 'action' field at the server
    fb_snaps,       \* snapshots the watch has still to deliver
    fb_pc,          \* position of handle_document_change
    fb_out,         \* lines firebase_script has written
    fb_writes,      \* actions the backend has written since the watch began
    \* ---- scanner
    scanned_code,   \* main's local variable
    sc_pc,          \* position of scanner.py
    sc_out,         \* barcodes of the scanned messages written
    sc_typed,       \* single-character keys pressed since the last KEY_ENTER
    \* ---- led_and_buzzer_script
    led_pc,         \* position of led_and_buzzer_script
    led_cmd,        \* the line being handled
    led_out,        \* lines led_and_buzzer_script has written
    led_nread       \* lines led_and_buzzer_script has read

lockVars == <<lockIno, inoText, pc, pid, fd, lock, lone, stale, quiet>>
outVars == <<out>>
prnVars == <<stack, flow, exc, rv, device, printer, cmd, nread, wire, probe, faults>>
btnVars == <<now, last_press_time, pressed, presses>>
relayVars == <<relays, rl_pc, channels, rl_idx, rl_out, rl_nread>>
initVars == <<pi_pc, attempt, config_attempts, pi_device, pi_out>>
webVars == <<action_queue, wh_req, wh_thr, wh_out>>
fireVars == <<fb_doc, fb_snaps, fb_pc, fb_out, fb_writes>>
scanVars == <<scanned_code, sc_pc, sc_out, sc_typed>>
ledVars == <<led_pc, led_cmd, led_out, led_nread>>
scriptVars == <<relayVars, initVars, webVars, fireVars, scanVars, ledVars>>
notRelay == <<lockVars, outVars, prnVars, btnVars, initVars, webVars, fireVars, scanVars, ledVars>>
notInit == <<lockVars, outVars, prnVars, btnVars, relayVars, webVars, fireVars, scanVars, ledVars>>
notWeb == <<lockVars, outVars, prnVars, btnVars, relayVars, initVars, fireVars, scanVars, ledVars>>
notFire == <<lockVars, outVars, prnVars, btnVars, relayVars, initVars, webVars, scanVars, ledVars>>
notScan == <<lockVars, outVars, prnVars, btnVars, relayVars, initVars, webVars, fireVars, ledVars>>
notLed == <<lockVars, outVars, prnVars, btnVars, relayVars, initVars, webVars, fireVars, scanVars>>
vars == <<lockVars, outVars, prnVars, btnVars, scriptVars>>

----------------------------------------------------------------------------
(* Bounds *)

NProcs == 2         \* printer_script instances the host launches
MaxTime == 12       \* largest clock value, in units of 0.1 s
MaxPresses == 4     \* press events of the button

Procs == 1..NProcs

----------------------------------------------------------------------------
(* printer_script.py: the PID lock file *)

\* os.kill(pid, 0) succeeds: the instance with that PID is running.
Running(q) == q \in Procs /\ pc[q] \notin {"idle", "dead", "done"}

\* A step of instance p that leaves LOCK_FILE as it is.
FileSame == UNCHANGED <<lockIno, inoText>>

\* History: a step of p that changes LOCK_FILE ends every other call's solitude.
Disturb(p) == lone' = [q \in Procs |-> IF q = p THEN lone[q] ELSE FALSE]

\* main(), line 497: the host has launched the instance and it calls acquire_lock().
MainStart(p) ==
    /\ pc[p] = "idle"
    /\ pc' = [pc EXCEPT ![p] = "acq_exists"]
    /\ lone' = [lone EXCEPT ![p] = TRUE]
    /\ stale' = [stale EXCEPT ![p] =
                    lockIno # 0 /\ inoText[lockIno] # 0 /\ ~Running(inoText[lockIno])]
    /\ quiet' = [quiet EXCEPT ![p] = \A q \in Procs \ {p} : ~Running(q)]
    /\ FileSame
    /\ UNCHANGED <<pid, fd, lock>>
    /\ UNCHANGED <<outVars, prnVars, btnVars, scriptVars>>

\* acquire_lock, line 26: os.path.exists(LOCK_FILE).
AcquireExists(p) ==
    /\ pc[p] = "acq_exists"
    /\ pc' = [pc EXCEPT ![p] = IF lockIno # 0 THEN "acq_read" ELSE "acq_open"]
    /\ FileSame
    /\ UNCHANGED <<pid, fd, lock, lone, stale, quiet>>
    /\ UNCHANGED <<outVars, prnVars, btnVars, scriptVars>>

\* acquire_lock, lines 28-29: open for reading, read, int(). A file removed
\* since line 26 raises FileNotFoundError and an empty text raises ValueError;
\* both reach the handler at line 41, which returns False.
AcquireRead(p) ==
    /\ pc[p] = "acq_read"
    /\ IF lockIno = 0 \/ inoText[lockIno] = 0
          THEN /\ pc' = [pc EXCEPT ![p] = "acq_false"]
               /\ pid' = pid
          ELSE /\ pc' = [pc EXCEPT ![p] = "acq_kill"]
               /\ pid' = [pid EXCEPT ![p] = inoText[lockIno]]
    /\ FileSame
    /\ UNCHANGED <<fd, lock, lone, stale, quiet>>
    /\ UNCHANGED <<outVars, prnVars, btnVars, scriptVars>>

\* Mutant of AcquireKill: the test of line 31 inverted.
AcquireKill_Inverted(p) ==
    /\ pc[p] = "acq_kill"
    /\ pc' = [pc EXCEPT ![p] = IF Running(pid[p]) THEN "acq_remove" ELSE "acq_false"]
    /\ FileSame
    /\ UNCHANGED <<pid, fd, lock, lone, stale, quiet>>
    /\ UNCHANGED <<outVars, prnVars, btnVars, scriptVars>>

\* acquire_lock, lines 30-33: os.kill(pid, 0); return False when the holder runs.
AcquireKill(p) ==
    /\ pc[p] = "acq_kill"
    /\ pc' = [pc EXCEPT ![p] = IF Running(pid[p]) THEN "acq_false" ELSE "acq_remove"]
    /\ FileSame
    /\ UNCHANGED <<pid, fd, lock, lone, stale, quiet>>
    /\ UNCHANGED <<outVars, prnVars, btnVars, scriptVars>>

\* acquire_lock, line 35: os.remove(LOCK_FILE). A file already removed raises
\* FileNotFoundError inside the OSError handler, caught at line 41.
AcquireRemove(p) ==
    /\ pc[p] = "acq_remove"
    /\ IF lockIno = 0
          THEN /\ pc' = [pc EXCEPT ![p] = "acq_false"]
               /\ UNCHANGED <<lockIno, lone>>
          ELSE /\ pc' = [pc EXCEPT ![p] = "acq_open"]
               /\ lockIno' = 0
               /\ Disturb(p)
    /\ UNCHANGED <<inoText, pid, fd, lock, stale, quiet>>
    /\ UNCHANGED <<outVars, prnVars, btnVars, scriptVars>>

\* acquire_lock, line 38: open(LOCK_FILE, 'w') truncates the file or creates it.
AcquireOpen(p) ==
    /\ pc[p] = "acq_open"
    /\ pc' = [pc EXCEPT ![p] = "acq_write"]
    /\ LET ino == IF lockIno # 0 THEN lockIno ELSE p
       IN  /\ lockIno' = ino
           /\ inoText' = [inoText EXCEPT ![ino] = 0]
           /\ fd' = [fd EXCEPT ![p] = ino]
    /\ Disturb(p)
    /\ UNCHANGED <<pid, lock, stale, quiet>>
    /\ UNCHANGED <<outVars, prnVars, btnVars, scriptVars>>

\* acquire_lock, lines 39-40: the text str(os.getpid()) reaches the opened file
\* as the with-block closes it; return True.
AcquireWrite(p) ==
    /\ pc[p] = "acq_write"
    /\ pc' = [pc EXCEPT ![p] = "running"]
    /\ inoText' = [inoText EXCEPT ![fd[p]] = p]
    /\ fd' = [fd EXCEPT ![p] = 0]
    /\ lock' = [lock EXCEPT ![p] = "true"]
    /\ Disturb(p)
    /\ UNCHANGED <<lockIno, pid, stale, quiet>>
    /\ UNCHANGED <<outVars, prnVars, btnVars, scriptVars>>

\* acquire_lock, lines 32 and 43: return False; main, line 498.
AcquireFalse(p) ==
    /\ pc[p] = "acq_false"
    /\ pc' = [pc EXCEPT ![p] = "m_denied"]
    /\ lock' = [lock EXCEPT ![p] = "false"]
    /\ FileSame
    /\ UNCHANGED <<pid, fd, lone, stale, quiet>>
    /\ UNCHANGED <<outVars, prnVars, btnVars, scriptVars>>

\* release_lock, line 49: os.path.exists(LOCK_FILE).
ReleaseExists(p) ==
    /\ pc[p] = "rel_exists"
    /\ pc' = [pc EXCEPT ![p] = IF lockIno # 0 THEN "rel_read" ELSE "rel_done"]
    /\ FileSame
    /\ UNCHANGED <<pid, fd, lock, lone, stale, quiet>>
    /\ UNCHANGED <<outVars, prnVars, btnVars, scriptVars>>

\* release_lock, lines 50-52: read the PID and compare it with os.getpid();
\* FileNotFoundError and ValueError are logged at line 55.
ReleaseRead(p) ==
    /\ pc[p] = "rel_read"
    /\ IF lockIno = 0 \/ inoText[lockIno] = 0
          THEN /\ pc' = [pc EXCEPT ![p] = "rel_done"]
               /\ pid' = pid
          ELSE /\ pc' = [pc EXCEPT ![p] =
                            IF inoText[lockIno] = p THEN "rel_remove" ELSE "rel_done"]
               /\ pid' = [pid EXCEPT ![p] = inoText[lockIno]]
    /\ FileSame
    /\ UNCHANGED <<fd, lock, lone, stale, quiet>>
    /\ UNCHANGED <<outVars, prnVars, btnVars, scriptVars>>

\* release_lock, line 53: os.remove(LOCK_FILE); a failure is logged at line 55.
ReleaseRemove(p) ==
    /\ pc[p] = "rel_remove"
    /\ pc' = [pc EXCEPT ![p] = "rel_done"]
    /\ IF lockIno = 0
          THEN UNCHANGED <<lockIno, lone>>
          ELSE lockIno' = 0 /\ Disturb(p)
    /\ UNCHANGED <<inoText, pid, fd, lock, stale, quiet>>
    /\ UNCHANGED <<outVars, prnVars, btnVars, scriptVars>>

\* The host kills an instance (SIGKILL): no handler and no finally block runs.
HostKill(p) ==
    /\ Running(p)
    /\ pc' = [pc EXCEPT ![p] = "dead"]
    /\ FileSame
    /\ UNCHANGED <<pid, fd, lock, lone, stale, quiet>>
    /\ UNCHANGED <<outVars, prnVars, btnVars, scriptVars>>

----------------------------------------------------------------------------
(* printer_script.py: exceptions *)

\* The class of each exception the code can raise, and Python's class
\* hierarchy above it.
ExcClass(e) ==
    CASE e = "USBError" -> "USBError"                \* usb.core.USBError
      [] e = "NotFound" -> "ValueError"              \* line 105
      [] e = "InitFailed" -> "RuntimeError"          \* line 148
      [] e = "RecursionError" -> "RecursionError"    \* interpreter, call depth
      [] e = "PaperOut" -> "RuntimeError"            \* line 202
      [] e = "NoImage" -> "ValueError"               \* line 296
      [] e = "BadImage" -> "ValueError"              \* binascii.Error, lines 300-303
      [] e = "ImageFailed" -> "ValueError"           \* line 393
      [] e = "ByteRange" -> "ValueError"             \* bytes([n]), n not in 0..255
      [] e = "JSONDecodeError" -> "ValueError"       \* json.loads, line 514
      [] OTHER -> "Exception"

Bases(c) ==
    CASE c = "USBError" -> {"USBError", "OSError", "Exception"}
      [] c = "ValueError" -> {"ValueError", "Exception"}
      [] c = "RuntimeError" -> {"RuntimeError", "Exception"}
      [] c = "RecursionError" -> {"RecursionError", "RuntimeError", "Exception"}
      [] OTHER -> {"Exception"}

\* `except c:` catches e.
Catches(c, e) == c \in Bases(ExcClass(e))

\* str(e), as main writes it in the "message" field.
Message(e) ==
    CASE e = "USBError" -> "USB error"
      [] e = "NotFound" -> "Printer not found - check USB connection"
      [] e = "InitFailed" -> "Failed to initialize printer after 3 attempts"
      [] e = "RecursionError" -> "maximum recursion depth exceeded"
      [] e = "PaperOut" -> "Paper out - unable to print"
      [] e = "NoImage" -> "No image data provided"
      [] e = "BadImage" -> "Incorrect padding"
      [] e = "ImageFailed" -> "Failed to process image"
      [] e = "ByteRange" -> "bytes must be in range(0, 256)"
      [] e = "JSONDecodeError" -> "Expecting value"
      [] OTHER -> e

----------------------------------------------------------------------------
(* printer_script.py: the call stack of HSK33Printer *)

Me == 1                 \* the instance whose printer code runs
RecursionLimit == 4     \* frames the interpreter allows below main()
MaxFaults == 3          \* failures the USB device produces in one run
MaxLines == 2           \* lines the host writes before closing stdin

NoArg == [key |-> "none", v |-> 0, px |-> <<>>]

\* A frame: fn the function, at its position, the _send loop's commands, index
\* i and byte offset off, n the attempt counter of _send / _initialize, arg the
\* command dict of a handler, e the exception a handler is handling.
Frame(fn, arg) ==
    [fn |-> fn, at |-> 0, cmds |-> <<>>, i |-> 1, off |-> 0, n |-> 0,
     arg |-> arg, e |-> "none"]

SendFrame(commands) == [Frame("_send", NoArg) EXCEPT !.cmds = commands]

Top == stack[Len(stack)]
Below == SubSeq(stack, 1, Len(stack) - 1)

\* The running frame becomes `caller` and calls `callee`; the interpreter
\* raises RecursionError in the caller when the stack is full.
Call(caller, callee) ==
    IF Len(stack) + 1 > RecursionLimit
       THEN /\ stack' = Append(Below, caller)
            /\ flow' = "raise"
            /\ exc' = "RecursionError"
       ELSE /\ stack' = Append(Append(Below, caller), callee)
            /\ flow' = "run"
            /\ exc' = "none"

\* The running frame returns to its caller.
Return ==
    /\ stack' = Below
    /\ flow' = "ret"
    /\ exc' = "none"

\* The running frame raises e to its caller.
Raise(e) ==
    /\ stack' = Below
    /\ flow' = "raise"
    /\ exc' = e

\* Manual initialization commands, lines 128-137.
MIN_DENSITY_CMD == <<27, 55, 7, 80, 32>>
InitCommands ==
    << <<27, 64>>, <<27, 116, 0>>, MIN_DENSITY_CMD, <<29, 33, 0>>,
       <<27, 51, 40>>, <<27, 97, 0>>, <<27, 68, 0>>, <<27, 50>> >>

ChunkSize == 1024       \* lines 168-171
Retries == 3            \* line 162, retries=3
max_attempts == 3       \* line 99

Min(a, b) == IF a < b THEN a ELSE b
Max(a, b) == IF a > b THEN a ELSE b

\* Mutant of NextChunk: the slice of line 171 one byte too long.
NextChunk_TooLong(f) ==
    LET c == f.cmds[f.i]
    IN  IF Len(c) > ChunkSize
           THEN SubSeq(c, f.off + 1, Min(f.off + ChunkSize + 1, Len(c)))
           ELSE c

\* _send, lines 168-175: the next chunk of cmds[i] to write, from offset off.
NextChunk(f) ==
    LET c == f.cmds[f.i]
    IN  IF Len(c) > ChunkSize
           THEN SubSeq(c, f.off + 1, Min(f.off + ChunkSize, Len(c)))
           ELSE c

\* _send, lines 170 and 178: the frame after a successful write.
AfterWrite(f) ==
    LET c == f.cmds[f.i]
    IN  IF Len(c) > ChunkSize /\ f.off + ChunkSize < Len(c)
           THEN [f EXCEPT !.off = f.off + ChunkSize]
           ELSE [f EXCEPT !.i = f.i + 1, !.off = 0, !.n = 0]

\* _send, lines 164-178: one ep_out.write succeeds.
SendWrite ==
    /\ stack # <<>> /\ flow = "run"
    /\ Top.fn = "_send" /\ Top.i <= Len(Top.cmds)
    /\ wire' = IF probe THEN Append(wire, NextChunk(Top)) ELSE wire
    /\ stack' = Append(Below, AfterWrite(Top))
    /\ UNCHANGED <<flow, exc, rv, device, printer, cmd, nread, probe, faults>>
    /\ UNCHANGED <<lockVars, outVars, btnVars, scriptVars>>

\* _send, lines 180-186: ep_out.write raises USBError; after the last attempt
\* the error is raised again, otherwise _initialize() is called and the
\* command is sent again from its first byte.
SendFail ==
    /\ stack # <<>> /\ flow = "run"
    /\ Top.fn = "_send" /\ Top.i <= Len(Top.cmds)
    /\ faults > 0
    /\ faults' = faults - 1
    /\ IF Top.n + 1 >= Retries
          THEN Raise("USBError")
          ELSE Call([Top EXCEPT !.n = Top.n + 1, !.off = 0], Frame("_initialize", NoArg))
    /\ UNCHANGED <<rv, device, printer, cmd, nread, wire, probe>>
    /\ UNCHANGED <<lockVars, outVars, btnVars, scriptVars>>

\* _send, line 186: _initialize() has returned; the while loop goes on.
SendResume ==
    /\ stack # <<>> /\ flow = "ret"
    /\ Top.fn = "_send"
    /\ flow' = "run"
    /\ UNCHANGED <<stack, exc, rv, device, printer, cmd, nread, wire, probe, faults>>
    /\ UNCHANGED <<lockVars, outVars, btnVars, scriptVars>>

\* _send, line 164: the for loop is exhausted; return.
SendReturn ==
    /\ stack # <<>> /\ flow = "run"
    /\ Top.fn = "_send" /\ Top.i > Len(Top.cmds)
    /\ Return
    /\ UNCHANGED <<rv, device, printer, cmd, nread, wire, probe, faults>>
    /\ UNCHANGED <<lockVars, outVars, btnVars, scriptVars>>

\* _initialize, lines 142-148: an attempt has failed with USBError; count it
\* and go round the loop, or leave the loop and raise RuntimeError.
InitAttemptFailed(f) ==
    IF f.n + 1 < max_attempts
       THEN /\ stack' = Append(Below, [f EXCEPT !.n = f.n + 1, !.at = 0])
            /\ flow' = "run"
            /\ exc' = "none"
       ELSE Raise("InitFailed")

\* _initialize, lines 103-137: find, reset, detach, configure and find the
\* endpoint, then call _send with the initialization commands.
InitSetup ==
    /\ stack # <<>> /\ flow = "run"
    /\ Top.fn = "_initialize" /\ Top.at = 0
    /\ device' = TRUE
    /\ Call([Top EXCEPT !.at = 1], SendFrame(InitCommands))
    /\ UNCHANGED <<rv, printer, cmd, nread, wire, probe, faults>>
    /\ UNCHANGED <<lockVars, outVars, btnVars, scriptVars>>

\* _initialize, lines 103-105: usb.core.find returns None; the ValueError is
\* not a USBError and leaves _initialize.
InitNotFound ==
    /\ stack # <<>> /\ flow = "run"
    /\ Top.fn = "_initialize" /\ Top.at = 0
    /\ faults > 0
    /\ faults' = faults - 1
    /\ device' = FALSE
    /\ Raise("NotFound")
    /\ UNCHANGED <<rv, printer, cmd, nread, wire, probe>>
    /\ UNCHANGED <<lockVars, outVars, btnVars, scriptVars>>

\* _initialize, lines 108-125 and 142-146: reset or configuration raises
\* USBError.
InitUsbError ==
    /\ stack # <<>> /\ flow = "run"
    /\ Top.fn = "_initialize" /\ Top.at = 0
    /\ faults > 0
    /\ faults' = faults - 1
    /\ device' = TRUE
    /\ InitAttemptFailed(Top)
    /\ UNCHANGED <<rv, printer, cmd, nread, wire, probe>>
    /\ UNCHANGED <<lockVars, outVars, btnVars, scriptVars>>

\* _initialize, lines 139-140: _send has returned; return.
InitReturn ==
    /\ stack # <<>> /\ flow = "ret"
    /\ Top.fn = "_initialize" /\ Top.at = 1
    /\ Return
    /\ UNCHANGED <<rv, device, printer, cmd, nread, wire, probe, faults>>
    /\ UNCHANGED <<lockVars, outVars, btnVars, scriptVars>>

\* _initialize, line 142: the USBError that _send raised is caught.
InitCatch ==
    /\ stack # <<>> /\ flow = "raise"
    /\ Top.fn = "_initialize" /\ Top.at = 1
    /\ Catches("USBError", exc)
    /\ InitAttemptFailed(Top)
    /\ UNCHANGED <<rv, device, printer, cmd, nread, wire, probe, faults>>
    /\ UNCHANGED <<lockVars, outVars, btnVars, scriptVars>>

----------------------------------------------------------------------------
(* printer_script.py: the command handlers *)

\* A parsed line: key is the first recognised key ("none": no recognised key,
\* "bad": not JSON), v its value (text: number of characters; qr: number of
\* bytes; space: the value; cut: 1 for partial; image: 0 empty, 1 decodable,
\* 2 undecodable), px the decoded image as rows of pixels (0 black, 1 white).
Line(key, v) == [key |-> key, v |-> v, px |-> <<>>]

Repeat(b, n) == [k \in 1..n |-> b]

\* print_text, lines 205-272, for a command that gives only 'text'.
TextCommands(arg) ==
    << <<27, 64>>, <<27, 97, 0>>, <<27, 77, 0>>, <<27, 32, 0>>, <<27, 51, 22>>,
       <<27, 33, 0>>, Repeat(65, arg.v) \o <<10>> >>

\* print_qr, lines 416-434, with the default size 3.
QrCommands(arg) ==
    << <<27, 64>>, <<27, 97, 1>>, <<29, 40, 107, 4, 0, 49, 65, 50, 0>>,
       <<29, 40, 107, 3, 0, 49, 67, 3>>, <<29, 40, 107, 3, 0, 49, 69, 49>>,
       <<29, 40, 107, arg.v + 3, 0, 49, 80, 48>> \o Repeat(65, arg.v),
       <<29, 40, 107, 3, 0, 49, 81, 48>>, <<27, 74, 64>> >>

\* paper_feed, lines 450-454.
FeedLines(arg) == Max(Min(IF arg.key = "space" THEN arg.v ELSE 1, 255), 1)
FeedDots(arg) == FeedLines(arg) * 24

\* paper_feed, lines 456-459.
FeedCommands(arg) == << <<27, 74, FeedDots(arg)>>, <<27, 100, FeedLines(arg)>> >>

\* cut_paper, lines 472-475 and 481-484.
CutFeedCommands == << <<27, 100, 3>>, <<27, 74, 128>> >>
CutCommand(arg) == IF arg.key = "cut" /\ arg.v = 1 THEN <<29, 86, 1>> ELSE <<29, 86, 0>>

max_width == 576        \* line 327

\* print_image, lines 327-331: an image wider than max_width is resized to
\* that width, its height scaled by the same ratio; a 1-bit image is
\* resampled by taking the nearest source pixel.
SrcHeight(arg) == Len(arg.px)
SrcWidth(arg) == IF arg.px = <<>> THEN 0 ELSE Len(arg.px[1])
Shrinks(arg) == SrcWidth(arg) > max_width
ImgWidth(arg) == IF Shrinks(arg) THEN max_width ELSE SrcWidth(arg)
ImgHeight(arg) ==
    IF Shrinks(arg) THEN (SrcHeight(arg) * max_width) \div SrcWidth(arg)
    ELSE SrcHeight(arg)
Nearest(k, from, to) == (((2 * k - 1) * from) \div (2 * to)) + 1
ImgPixel(arg, x, y) ==
    IF Shrinks(arg)
       THEN arg.px[Nearest(y, SrcHeight(arg), ImgHeight(arg))]
                  [Nearest(x, SrcWidth(arg), max_width)]
       ELSE arg.px[y][x]

\* print_image, lines 334-359: the raster data of the padded image.
PaddedWidth(arg) == ((ImgWidth(arg) + 7) \div 8) * 8
WidthBytes(arg) == PaddedWidth(arg) \div 8
Pixel(arg, x, y) == IF x <= ImgWidth(arg) THEN ImgPixel(arg, x, y) ELSE 1
BitValue_LsbFirst(bit) == 2 ^ bit
BitValue(bit) == 2 ^ (7 - bit)
RECURSIVE PackBits(_, _, _, _)
PackBits(arg, x, y, bit) ==
    IF bit = 8 THEN 0
    ELSE (IF Pixel(arg, x + bit + 1, y) = 0 THEN BitValue(bit) ELSE 0)
         + PackBits(arg, x, y, bit + 1)
RasterData(arg) ==
    [k \in 1..(WidthBytes(arg) * ImgHeight(arg)) |->
        PackBits(arg, ((k - 1) % WidthBytes(arg)) * 8, ((k - 1) \div WidthBytes(arg)) + 1, 0)]

\* print_image, lines 362-366.
RasterHeader(arg) ==
    << <<29, 118, 48, 0>>,
       <<WidthBytes(arg) % 256, WidthBytes(arg) \div 256>>,
       <<ImgHeight(arg) % 256, ImgHeight(arg) \div 256>> >>

CHUNK_SIZE == 128       \* line 371

\* print_image, lines 372-374: the chunk of raster data from offset off.
RasterChunk(arg, off) ==
    SubSeq(RasterData(arg), off + 1, Min(off + CHUNK_SIZE, Len(RasterData(arg))))

Running1 == stack # <<>> /\ flow = "run"
Returned == stack # <<>> /\ flow = "ret"
Raised == stack # <<>> /\ flow = "raise"
Quiet ==
    UNCHANGED <<rv, device, printer, cmd, nread, wire, probe, faults,
                lockVars, outVars, btnVars, scriptVars>>

\* _check_paper, lines 192-193: status bytes the printer may answer with, and
\* the test (status & 0x60) == 0 on bits 5 and 6.
StatusBytes == {0, 18, 32, 64, 96, 159, 255}
PaperOk(status) == (status \div 32) % 4 = 0

\* _check_paper, line 191.
CheckPaperSend ==
    /\ Running1 /\ Top.fn = "_check_paper" /\ Top.at = 0
    /\ Call([Top EXCEPT !.at = 1], SendFrame(<< <<16, 4, 4>> >>))
    /\ Quiet

\* _check_paper, lines 192-196: read the status byte; a read that fails (no
\* device object, or USBError) is caught and gives False.
CheckPaperRead ==
    /\ Returned /\ Top.fn = "_check_paper" /\ Top.at = 1
    /\ \/ /\ device
          /\ \E status \in StatusBytes : rv' = PaperOk(status)
          /\ faults' = faults
       \/ /\ ~device
          /\ rv' = FALSE
          /\ faults' = faults
       \/ /\ device /\ faults > 0
          /\ rv' = FALSE
          /\ faults' = faults - 1
    /\ Return
    /\ UNCHANGED <<device, printer, cmd, nread, wire, probe>>
    /\ UNCHANGED <<lockVars, outVars, btnVars, scriptVars>>

\* _check_paper, lines 194-196: an exception of _send is caught.
CheckPaperCatch ==
    /\ Raised /\ Top.fn = "_check_paper"
    /\ Catches("Exception", exc)
    /\ rv' = FALSE
    /\ Return
    /\ UNCHANGED <<device, printer, cmd, nread, wire, probe, faults>>
    /\ UNCHANGED <<lockVars, outVars, btnVars, scriptVars>>

\* print_text, line 201.
PrintTextCheck ==
    /\ Running1 /\ Top.fn = "print_text" /\ Top.at = 0
    /\ Call([Top EXCEPT !.at = 1], Frame("_check_paper", NoArg))
    /\ Quiet

\* Mutant of PrintTextSend: the commands are sent whatever the paper check said.
PrintTextSend_Unchecked ==
    /\ Returned /\ Top.fn = "print_text" /\ Top.at = 1
    /\ Call([Top EXCEPT !.at = 2], SendFrame(TextCommands(Top.arg)))
    /\ rv' = FALSE
    /\ UNCHANGED <<device, printer, cmd, nread, wire, probe, faults>>
    /\ UNCHANGED <<lockVars, outVars, btnVars, scriptVars>>

\* print_text, lines 201-275: raise when the paper check failed, otherwise
\* build the commands and send them.
PrintTextSend ==
    /\ Returned /\ Top.fn = "print_text" /\ Top.at = 1
    /\ IF rv
          THEN Call([Top EXCEPT !.at = 2], SendFrame(TextCommands(Top.arg)))
          ELSE Raise("PaperOut")
    /\ rv' = FALSE
    /\ UNCHANGED <<device, printer, cmd, nread, wire, probe, faults>>
    /\ UNCHANGED <<lockVars, outVars, btnVars, scriptVars>>

\* print_qr, lines 416-436.
PrintQrSend ==
    /\ Running1 /\ Top.fn = "print_qr" /\ Top.at = 0
    /\ IF Top.arg.v + 3 > 255
          THEN Raise("ByteRange")
          ELSE Call([Top EXCEPT !.at = 2], SendFrame(QrCommands(Top.arg)))
    /\ Quiet

\* paper_feed, lines 450-461.
PaperFeedSend ==
    /\ Running1 /\ Top.fn = "paper_feed" /\ Top.at = 0
    /\ IF FeedDots(Top.arg) > 255
          THEN Raise("ByteRange")
          ELSE Call([Top EXCEPT !.at = 2], SendFrame(FeedCommands(Top.arg)))
    /\ Quiet

\* cut_paper, line 476.
CutPaperFeed ==
    /\ Running1 /\ Top.fn = "cut_paper" /\ Top.at = 0
    /\ Call([Top EXCEPT !.at = 1], SendFrame(CutFeedCommands))
    /\ Quiet

\* cut_paper, lines 481-486.
CutPaperCut ==
    /\ Returned /\ Top.fn = "cut_paper" /\ Top.at = 1
    /\ Call([Top EXCEPT !.at = 2], SendFrame(<<CutCommand(Top.arg)>>))
    /\ Quiet

\* _clear_buffer, lines 405-408.
ClearBufferSend ==
    /\ Running1 /\ Top.fn = "_clear_buffer" /\ Top.at = 0
    /\ Call([Top EXCEPT !.at = 2], SendFrame(<< <<27, 64>>, <<27, 74, 64>> >>))
    /\ Quiet

\* _clear_buffer, lines 410-411: any exception is logged and dropped.
ClearBufferCatch ==
    /\ Raised /\ Top.fn = "_clear_buffer"
    /\ Catches("Exception", exc)
    /\ Return
    /\ Quiet

\* print_text line 276, print_qr 437, paper_feed 462, cut_paper 487,
\* _clear_buffer 409: the last _send has returned; return.
HandlerReturn ==
    /\ Returned /\ Top.at = 2
    /\ Top.fn \in {"print_text", "print_qr", "paper_feed", "cut_paper", "_clear_buffer"}
    /\ Return
    /\ Quiet

\* print_image, lines 287-290.
PrintImageReset ==
    /\ Running1 /\ Top.fn = "print_image" /\ Top.at = 0
    /\ Call([Top EXCEPT !.at = 1], SendFrame(<< <<27, 64>>, <<27, 97, 1>> >>))
    /\ Quiet

\* print_image, lines 388-393 (inner handler) and 395-399 (outer handler):
\* both call _initialize() before raising.
ImageInnerExcept(f, e) == Call([f EXCEPT !.at = 10, !.e = e], Frame("_initialize", NoArg))
ImageOuterExcept(f, e) == Call([f EXCEPT !.at = 11, !.e = e], Frame("_initialize", NoArg))

\* print_image, lines 294-344: check and decode the image, then send the
\* alignment command.
PrintImageDecode ==
    /\ Returned /\ Top.fn = "print_image" /\ Top.at = 1
    /\ CASE Top.arg.v = 0 -> ImageOuterExcept(Top, "NoImage")
         [] Top.arg.v = 2 -> ImageInnerExcept(Top, "BadImage")
         [] OTHER -> Call([Top EXCEPT !.at = 2], SendFrame(<< <<27, 97, 1>> >>))
    /\ Quiet

\* print_image, lines 348-367.
PrintImageHeader ==
    /\ Returned /\ Top.fn = "print_image" /\ Top.at = 2
    /\ Call([Top EXCEPT !.at = 3], SendFrame(RasterHeader(Top.arg)))
    /\ Quiet

\* print_image, lines 372-374 and 381-385: send the next chunk of raster data,
\* or the feed commands when none is left.
PrintImageChunk ==
    /\ Returned /\ Top.fn = "print_image" /\ Top.at \in {3, 4}
    /\ LET off == IF Top.at = 3 THEN 0 ELSE Top.off + CHUNK_SIZE
       IN  IF off < Len(RasterData(Top.arg))
              THEN Call([Top EXCEPT !.at = 4, !.off = off],
                        SendFrame(<<RasterChunk(Top.arg, off)>>))
              ELSE Call([Top EXCEPT !.at = 5], SendFrame(<< <<27, 74, 64>>, <<27, 100, 2>> >>))
    /\ Quiet

\* print_image, line 386: return.
PrintImageReturn ==
    /\ Returned /\ Top.fn = "print_image" /\ Top.at = 5
    /\ Return
    /\ Quiet

\* print_image, lines 388-399: an exception inside the inner try is handled
\* by the inner handler, one of the first _send by the outer handler, and one
\* raised by the inner handler's _initialize() by the outer handler.
PrintImageCatch ==
    /\ Raised /\ Top.fn = "print_image" /\ Top.at \in 1..10
    /\ Catches("Exception", exc)
    /\ IF Top.at \in 2..5
          THEN ImageInnerExcept(Top, exc)
          ELSE ImageOuterExcept(Top, exc)
    /\ Quiet

\* print_image, line 393: the inner handler's _initialize() has returned; the
\* ValueError it raises is handled by the outer handler.
PrintImageInnerRaise ==
    /\ Returned /\ Top.fn = "print_image" /\ Top.at = 10
    /\ ImageOuterExcept(Top, "ImageFailed")
    /\ Quiet

\* print_image, line 400: the outer handler raises the exception again.
PrintImageOuterRaise ==
    /\ Returned /\ Top.fn = "print_image" /\ Top.at = 11
    /\ Raise(Top.e)
    /\ Quiet

\* The frame has no handler for the exception: it goes to the caller.
\* print_text (278), print_qr (439), paper_feed (464) and cut_paper (489) log
\* and raise again; _send and _initialize handle only the USBError of their
\* own try block.
Unwind ==
    /\ Raised
    /\ \/ Top.fn \in {"_send", "print_text", "print_qr", "paper_feed", "cut_paper"}
       \/ Top.fn = "_initialize" /\ ~Catches("USBError", exc)
       \/ Top.fn = "print_image" /\ Top.at = 11
    /\ stack' = Below
    /\ UNCHANGED <<flow, exc>>
    /\ Quiet

----------------------------------------------------------------------------
(* printer_script.py: main() *)

Say(p, status, message) ==
    out' = [out EXCEPT ![p] = Append(@, [status |-> status, message |-> message])]

\* main, lines 498-500: report the running instance and return.
MainDenied(p) ==
    /\ pc[p] = "m_denied"
    /\ pc' = [pc EXCEPT ![p] = "done"]
    /\ Say(p, "error", "Another instance running")
    /\ FileSame
    /\ UNCHANGED <<pid, fd, lock, lone, stale, quiet>>
    /\ UNCHANGED <<prnVars, btnVars, scriptVars>>

\* The lines the host writes.
OnePixelRow == <<0, 1, 1, 0, 0, 0, 0, 1, 0>>
Lines ==
    { Line("text", 2), Line("qr", 2), Line("space", 1), Line("space", 11),
      Line("cut", 0), Line("cut", 1), Line("none", 0), Line("bad", 0),
      Line("image", 0), Line("image", 2),
      [key |-> "image", v |-> 1, px |-> <<OnePixelRow>>] }

AtMain(where) == pc[Me] = where /\ stack = <<>>
Goto(where) == pc' = [pc EXCEPT ![Me] = where]
LockSame == UNCHANGED <<lockIno, inoText, pid, fd, lock, lone, stale, quiet>>

\* main calls a method of the printer.
MainCall(fn, arg) ==
    /\ stack' = <<Frame(fn, arg)>>
    /\ flow' = "run"
    /\ exc' = "none"

\* Mutant of MainConstruct: ready written before the constructor runs.
MainConstruct_ReadyFirst ==
    /\ AtMain("running")
    /\ Goto("m_construct")
    /\ MainCall("_initialize", NoArg)
    /\ Say(Me, "ready", "")
    /\ LockSame
    /\ UNCHANGED <<rv, device, printer, cmd, nread, wire, probe, faults>>
    /\ UNCHANGED <<btnVars, scriptVars>>

\* main, lines 502-504: HSK33Printer() runs _initialize().
MainConstruct ==
    /\ AtMain("running")
    /\ Goto("m_construct")
    /\ MainCall("_initialize", NoArg)
    /\ LockSame
    /\ UNCHANGED <<out, rv, device, printer, cmd, nread, wire, probe, faults>>
    /\ UNCHANGED <<btnVars, scriptVars>>

\* main, lines 504-506: the constructor has returned; write ready.
MainReady ==
    /\ AtMain("m_construct") /\ flow = "ret"
    /\ Goto("m_read")
    /\ printer' = TRUE
    /\ Say(Me, "ready", "")
    /\ flow' = "run"
    /\ LockSame
    /\ UNCHANGED <<stack, exc, rv, device, cmd, nread, wire, probe, faults>>
    /\ UNCHANGED <<btnVars, scriptVars>>

\* main, lines 544-548: the constructor has raised; report and go to finally.
MainFatal ==
    /\ AtMain("m_construct") /\ flow = "raise"
    /\ Catches("Exception", exc)
    /\ Goto("rel_exists")
    /\ Say(Me, "error", "Printer system failure")
    /\ flow' = "run" /\ exc' = "none"
    /\ LockSame
    /\ UNCHANGED <<stack, rv, device, printer, cmd, nread, wire, probe, faults>>
    /\ UNCHANGED <<btnVars, scriptVars>>

\* main, lines 509-530: read a line, parse it and call the first handler of
\* its branch.
MainRead ==
    /\ AtMain("m_read")
    /\ nread < MaxLines
    /\ \E l \in Lines :
        /\ cmd' = l
        /\ CASE l.key = "bad" ->
                    stack' = <<>> /\ flow' = "raise" /\ exc' = "JSONDecodeError"
             [] l.key = "none" -> stack' = <<>> /\ flow' = "ret" /\ exc' = "none"
             [] l.key = "text" -> MainCall("print_text", l)
             [] l.key = "image" -> MainCall("_clear_buffer", NoArg)
             [] l.key = "qr" -> MainCall("print_qr", l)
             [] l.key = "space" -> MainCall("paper_feed", l)
             [] l.key = "cut" -> MainCall("paper_feed", Line("space", 1))
    /\ nread' = nread + 1
    /\ wire' = <<>>
    /\ Goto("m_h1")
    /\ LockSame
    /\ UNCHANGED <<out, rv, device, printer, probe, faults>>
    /\ UNCHANGED <<btnVars, scriptVars>>

\* main, lines 521 and 532: the second handler of the image and cut branches.
MainSecond ==
    /\ AtMain("m_h1") /\ flow = "ret"
    /\ cmd.key \in {"image", "cut"}
    /\ MainCall(IF cmd.key = "image" THEN "print_image" ELSE "cut_paper", cmd)
    /\ Goto("m_h2")
    /\ LockSame
    /\ UNCHANGED <<out, rv, device, printer, cmd, nread, wire, probe, faults>>
    /\ UNCHANGED <<btnVars, scriptVars>>

\* main, lines 535-536: the branch is done; write success.
MainSuccess ==
    /\ flow = "ret"
    /\ \/ AtMain("m_h1") /\ cmd.key \notin {"image", "cut"}
       \/ AtMain("m_h2")
    /\ Say(Me, "success", "")
    /\ Goto("m_read")
    /\ flow' = "run"
    /\ LockSame
    /\ UNCHANGED <<stack, exc, rv, device, printer, cmd, nread, wire, probe, faults>>
    /\ UNCHANGED <<btnVars, scriptVars>>

\* Mutant of MainCatch: the handler of line 539 placed outside the loop.
MainCatch_EndsLoop ==
    /\ flow = "raise"
    /\ AtMain("m_h1") \/ AtMain("m_h2")
    /\ Catches("Exception", exc)
    /\ Say(Me, "error", Message(exc))
    /\ Goto("rel_exists")
    /\ flow' = "run" /\ exc' = "none"
    /\ LockSame
    /\ UNCHANGED <<stack, rv, device, printer, cmd, nread, wire, probe, faults>>
    /\ UNCHANGED <<btnVars, scriptVars>>

\* main, lines 539-542: the command has raised; write the error.
MainCatch ==
    /\ flow = "raise"
    /\ AtMain("m_h1") \/ AtMain("m_h2")
    /\ Catches("Exception", exc)
    /\ Say(Me, "error", Message(exc))
    /\ Goto("m_read")
    /\ flow' = "run" /\ exc' = "none"
    /\ LockSame
    /\ UNCHANGED <<stack, rv, device, printer, cmd, nread, wire, probe, faults>>
    /\ UNCHANGED <<btnVars, scriptVars>>

\* Mutant of MainEof: the loop left without release_lock().
MainEof_NoRelease ==
    /\ AtMain("m_read")
    /\ Goto("rel_done")
    /\ wire' = <<>>
    /\ LockSame
    /\ UNCHANGED <<out, stack, flow, exc, rv, device, printer, cmd, nread, probe, faults>>
    /\ UNCHANGED <<btnVars, scriptVars>>

\* main, lines 509-511 and 547-548: stdin is at EOF; leave the loop for finally.
MainEof ==
    /\ AtMain("m_read")
    /\ Goto("rel_exists")
    /\ wire' = <<>>
    /\ LockSame
    /\ UNCHANGED <<out, stack, flow, exc, rv, device, printer, cmd, nread, probe, faults>>
    /\ UNCHANGED <<btnVars, scriptVars>>

\* main, lines 549-552: release_lock() has returned; the final feed.
MainFinalFeed ==
    /\ AtMain("rel_done")
    /\ IF printer
          THEN MainCall("paper_feed", Line("space", 3)) /\ Goto("m_fin1")
          ELSE UNCHANGED <<stack, flow, exc>> /\ Goto("done")
    /\ LockSame
    /\ UNCHANGED <<out, rv, device, printer, cmd, nread, wire, probe, faults>>
    /\ UNCHANGED <<btnVars, scriptVars>>

\* main, line 553: the final cut.
MainFinalCut ==
    /\ AtMain("m_fin1") /\ flow = "ret"
    /\ MainCall("cut_paper", NoArg)
    /\ Goto("m_fin2")
    /\ LockSame
    /\ UNCHANGED <<out, rv, device, printer, cmd, nread, wire, probe, faults>>
    /\ UNCHANGED <<btnVars, scriptVars>>

\* main, lines 553-555: the final cut is done, or the final feed or cut has
\* raised and the bare except drops the exception; main returns.
MainExit ==
    /\ \/ AtMain("m_fin2") /\ flow = "ret"
       \/ (AtMain("m_fin1") \/ AtMain("m_fin2")) /\ flow = "raise"
    /\ Goto("done")
    /\ flow' = "run" /\ exc' = "none"
    /\ LockSame
    /\ UNCHANGED <<out, stack, rv, device, printer, cmd, nread, wire, probe, faults>>
    /\ UNCHANGED <<btnVars, scriptVars>>

----------------------------------------------------------------------------
(* Initial states *)

InitLockFile ==
    /\ lockIno = 0
    /\ inoText = [k \in Procs |-> 0]

InitProcs ==
    /\ pc = [p \in Procs |-> "idle"]
    /\ pid = [p \in Procs |-> 0]
    /\ fd = [p \in Procs |-> 0]
    /\ lock = [p \in Procs |-> "none"]
    /\ lone = [p \in Procs |-> FALSE]
    /\ stale = [p \in Procs |-> FALSE]
    /\ quiet = [p \in Procs |-> FALSE]
    /\ out = [p \in Procs |-> <<>>]

InitPrinter ==
    /\ stack = <<>>
    /\ flow = "run"
    /\ exc = "none"
    /\ rv = FALSE
    /\ device = FALSE
    /\ printer = FALSE
    /\ cmd = NoArg
    /\ nread = 0
    /\ wire = <<>>
    /\ probe = FALSE
    /\ faults = MaxFaults

InitButton ==
    /\ now \in 0..MaxTime
    /\ last_press_time = 0
    /\ pressed = <<>>
    /\ presses = 0

NoButton == now = 0 /\ last_press_time = 0 /\ pressed = <<>> /\ presses = 0

\* relay_script before RelayController is constructed.
NoRelay ==
    /\ relays = <<>>
    /\ rl_pc = "start"
    /\ channels = [container |-> TRUE, items |-> <<>>]
    /\ rl_idx = 0
    /\ rl_out = <<>>
    /\ rl_nread = 0

\* printer_init_script before main runs.
NoInit ==
    /\ pi_pc = "start"
    /\ attempt = 0
    /\ config_attempts = 0
    /\ pi_device = FALSE
    /\ pi_out = <<>>

\* webhook_script with no request made.
NoWeb ==
    /\ action_queue = <<>>
    /\ wh_req = <<>>
    /\ wh_thr = <<>>
    /\ wh_out = <<>>

\* firebase_script before the listener is started.
NoFire ==
    /\ fb_doc = "none"
    /\ fb_snaps = <<>>
    /\ fb_pc = "start"
    /\ fb_out = <<>>
    /\ fb_writes = 0

\* scanner.py before main runs.
NoScan ==
    /\ scanned_code = <<>>
    /\ sc_pc = "start"
    /\ sc_out = <<>>
    /\ sc_typed = <<>>

\* led_and_buzzer_script before main runs.
NoLed ==
    /\ led_pc = "start"
    /\ led_cmd = [method |-> "none", mode |-> "none", valid |-> TRUE]
    /\ led_out = <<>>
    /\ led_nread = 0

----------------------------------------------------------------------------
(* SpecLock: the lock protocol of several instances.  What an instance does *)
(* between acquire_lock() returning True and the finally block (lines       *)
(* 502-546) does not touch LOCK_FILE and is one step here.                  *)

\* main, lines 502-548: the work ends (stdin EOF or fatal error); finally
\* calls release_lock().
LockWorkEnds(p) ==
    /\ pc[p] = "running"
    /\ pc' = [pc EXCEPT ![p] = "rel_exists"]
    /\ FileSame
    /\ UNCHANGED <<pid, fd, lock, lone, stale, quiet>>
    /\ UNCHANGED <<outVars, prnVars, btnVars, scriptVars>>

\* main, lines 549-555 and process exit.
LockExit(p) ==
    /\ pc[p] = "rel_done"
    /\ pc' = [pc EXCEPT ![p] = "done"]
    /\ FileSame
    /\ UNCHANGED <<pid, fd, lock, lone, stale, quiet>>
    /\ UNCHANGED <<outVars, prnVars, btnVars, scriptVars>>

NoScripts == NoRelay /\ NoInit /\ NoWeb /\ NoFire /\ NoScan /\ NoLed

InitLock == InitLockFile /\ InitProcs /\ InitPrinter /\ NoButton /\ NoScripts

NextLock ==
    \E p \in Procs :
        \/ MainStart(p)
        \/ AcquireExists(p)
        \/ AcquireRead(p)
        \/ AcquireKill(p)
        \/ AcquireRemove(p)
        \/ AcquireOpen(p)
        \/ AcquireWrite(p)
        \/ AcquireFalse(p)
        \/ MainDenied(p)
        \/ LockWorkEnds(p)
        \/ ReleaseExists(p)
        \/ ReleaseRead(p)
        \/ ReleaseRemove(p)
        \/ LockExit(p)
        \/ HostKill(p)

SpecLock == InitLock /\ [][NextLock]_vars

----------------------------------------------------------------------------
(* SpecMain: instance Me in full.  LOCK_FILE is absent, or held by another   *)
(* instance (PID Other) that keeps running.                                *)

Other == 2

InitMain ==
    /\ InitPrinter /\ NoButton /\ NoScripts
    /\ pid = [p \in Procs |-> 0]
    /\ fd = [p \in Procs |-> 0]
    /\ lone = [p \in Procs |-> FALSE]
    /\ stale = [p \in Procs |-> FALSE]
    /\ quiet = [p \in Procs |-> FALSE]
    /\ out = [p \in Procs |-> <<>>]
    /\ \/ /\ InitLockFile
          /\ pc = [p \in Procs |-> "idle"]
          /\ lock = [p \in Procs |-> "none"]
       \/ /\ lockIno = Other
          /\ inoText = [k \in Procs |-> IF k = Other THEN Other ELSE 0]
          /\ pc = [p \in Procs |-> IF p = Other THEN "running" ELSE "idle"]
          /\ lock = [p \in Procs |-> IF p = Other THEN "true" ELSE "none"]

NextMain ==
    \/ MainStart(Me)
    \/ AcquireExists(Me)
    \/ AcquireRead(Me)
    \/ AcquireKill(Me)
    \/ AcquireOpen(Me)
    \/ AcquireWrite(Me)
    \/ AcquireFalse(Me)
    \/ MainDenied(Me)
    \/ MainConstruct \/ MainReady \/ MainFatal \/ MainRead \/ MainSecond
    \/ MainSuccess \/ MainCatch \/ MainEof
    \/ ReleaseExists(Me)
    \/ ReleaseRead(Me)
    \/ ReleaseRemove(Me)
    \/ MainFinalFeed \/ MainFinalCut \/ MainExit
    \/ SendWrite \/ SendFail \/ SendResume \/ SendReturn
    \/ InitSetup \/ InitNotFound \/ InitUsbError \/ InitReturn \/ InitCatch
    \/ CheckPaperSend \/ CheckPaperRead \/ CheckPaperCatch
    \/ PrintTextCheck \/ PrintTextSend
    \/ PrintQrSend \/ PaperFeedSend \/ CutPaperFeed \/ CutPaperCut
    \/ ClearBufferSend \/ ClearBufferCatch \/ HandlerReturn
    \/ PrintImageReset \/ PrintImageDecode \/ PrintImageHeader \/ PrintImageChunk
    \/ PrintImageReturn \/ PrintImageCatch \/ PrintImageInnerRaise
    \/ PrintImageOuterRaise \/ Unwind

SpecMain == InitMain /\ [][NextMain]_vars

----------------------------------------------------------------------------
(* SpecSend: HSK33Printer._send called on its own, on lists of commands of   *)
(* lengths around the chunk size, against a device whose writes succeed.     *)
(* The writes are recorded in wire.                                          *)

MaxCmds == 2            \* commands in the list given to _send

\* Command number j of n bytes; its bytes differ from place to place and from
\* command to command.
TestCmd(j, n) == [k \in 1..n |-> (k + 7 * j) % 251]

SendLens == {1, ChunkSize - 1, ChunkSize, ChunkSize + 1, 2 * ChunkSize, 2 * ChunkSize + 1}

SendInputs ==
    UNION { { [j \in 1..m |-> TestCmd(j, lens[j])] : lens \in [1..m -> SendLens] }
            : m \in 0..MaxCmds }

InitSend ==
    /\ InitLockFile /\ InitProcs /\ NoButton /\ NoScripts
    /\ \E commands \in SendInputs : stack = <<SendFrame(commands)>>
    /\ flow = "run"
    /\ exc = "none"
    /\ rv = FALSE
    /\ device = TRUE
    /\ printer = TRUE
    /\ cmd = NoArg
    /\ nread = 0
    /\ wire = <<>>
    /\ probe = TRUE
    /\ faults = 0

NextSend == SendWrite \/ SendReturn

SpecSend == InitSend /\ [][NextSend]_vars

----------------------------------------------------------------------------
(* button_script.py *)

debounce_time == 3      \* 0.3 s in units of 0.1 s

\* time.time() moves: forward as time passes, or to any value when the wall
\* clock is set.
ClockMoves ==
    /\ \E t \in 0..MaxTime : t # now /\ now' = t
    /\ UNCHANGED <<last_press_time, pressed, presses>>
    /\ UNCHANGED <<lockVars, outVars, prnVars, scriptVars>>

\* Mutant of button_callback: >= for > at line 20.
button_callback_AtLeast ==
    /\ presses < MaxPresses
    /\ presses' = presses + 1
    /\ IF now - last_press_time >= debounce_time
          THEN /\ pressed' = Append(pressed, now)
               /\ last_press_time' = now
          ELSE UNCHANGED <<pressed, last_press_time>>
    /\ now' = now
    /\ UNCHANGED <<lockVars, outVars, prnVars, scriptVars>>

\* button_callback, lines 17-22, run by the button's single event thread.
button_callback ==
    /\ presses < MaxPresses
    /\ presses' = presses + 1
    /\ IF now - last_press_time > debounce_time
          THEN /\ pressed' = Append(pressed, now)
               /\ last_press_time' = now
          ELSE UNCHANGED <<pressed, last_press_time>>
    /\ now' = now
    /\ UNCHANGED <<lockVars, outVars, prnVars, scriptVars>>

InitBtn == InitLockFile /\ InitProcs /\ InitPrinter /\ InitButton /\ NoScripts

NextButton == ClockMoves \/ button_callback

SpecButton == InitBtn /\ [][NextButton]_vars

----------------------------------------------------------------------------
(* relay_script.py *)

MaxChannels == 2        \* longest 'channels' list the host sends

relay_pins == <<26, 20, 21>>            \* line 39
RelayIdx == 0..(Len(relay_pins) - 1)    \* enumerate(self.relays)

\* The 'channels' values of a trigger command: lists of integers, among
\* them indices no relay has, and a value that is no container.
ChannelLists ==
    {[container |-> TRUE, items |-> l] :
        l \in UNION {[1..n -> 0..Len(relay_pins)] : n \in 0..MaxChannels}}
Scalar == [container |-> FALSE, items |-> <<>>]

\* `idx in channels` for a list.
InList(idx, list) == \E k \in 1..Len(list.items) : list.items[k] = idx

RelaySay(status, text) == rl_out' = Append(rl_out, [status |-> status, text |-> text])

\* main, lines 39-44, and __init__, lines 8-11: every OutputDevice is
\* created with initial_value=True; ready is written.
RelayConstruct ==
    /\ rl_pc = "start"
    /\ relays' = [i \in RelayIdx |-> TRUE]
    /\ RelaySay("ready", "Relay controller initialized")
    /\ rl_pc' = "wait"
    /\ UNCHANGED <<channels, rl_idx, rl_nread>>
    /\ UNCHANGED notRelay

\* __init__, lines 12-15: an OutputDevice cannot be created; error and exit.
RelayConstructFails ==
    /\ rl_pc = "start"
    /\ RelaySay("error", "Failed to initialize relay")
    /\ rl_pc' = "exit"
    /\ UNCHANGED <<relays, channels, rl_idx, rl_nread>>
    /\ UNCHANGED notRelay

\* main, lines 47-53: a trigger command is read and trigger_relays called.
RelayTrigger ==
    /\ rl_pc = "wait"
    /\ rl_nread < MaxLines
    /\ rl_nread' = rl_nread + 1
    /\ channels' \in ChannelLists \cup {Scalar}
    /\ rl_idx' = 0
    /\ rl_pc' = "activate"
    /\ UNCHANGED <<relays, rl_out>>
    /\ UNCHANGED notRelay

\* main, lines 54-60: a line with another method, or one that is no JSON
\* object, is answered with an error.
RelayRejects ==
    /\ rl_pc = "wait"
    /\ rl_nread < MaxLines
    /\ rl_nread' = rl_nread + 1
    /\ \E text \in {"Unknown method", "exception"} : RelaySay("error", text)
    /\ UNCHANGED <<relays, rl_pc, channels, rl_idx>>
    /\ UNCHANGED notRelay

\* trigger_relays, lines 20-24 and 33-35: one iteration of the first loop;
\* `idx in channels` raises TypeError when channels is no container.
RelayActivate ==
    /\ rl_pc = "activate"
    /\ IF channels = Scalar
          THEN /\ RelaySay("error", "exception")
               /\ rl_pc' = "wait"
               /\ UNCHANGED <<relays, rl_idx>>
          ELSE /\ relays' = [relays EXCEPT ![rl_idx] = ~InList(rl_idx, channels)]
               /\ rl_idx' = rl_idx + 1
               /\ rl_pc' = IF rl_idx + 1 = Len(relay_pins) THEN "sleep" ELSE "activate"
               /\ UNCHANGED rl_out
    /\ UNCHANGED <<channels, rl_nread>>
    /\ UNCHANGED notRelay

\* trigger_relays, line 26: time.sleep(1).
RelaySleep ==
    /\ rl_pc = "sleep"
    /\ rl_pc' = "reset"
    /\ rl_idx' = 0
    /\ UNCHANGED <<relays, channels, rl_out, rl_nread>>
    /\ UNCHANGED notRelay

\* Mutant of RelayReset: the second loop leaves the relays as they are.
RelayReset_Skips ==
    /\ rl_pc = "reset"
    /\ relays' = relays
    /\ rl_idx' = rl_idx + 1
    /\ rl_pc' = IF rl_idx + 1 = Len(relay_pins) THEN "complete" ELSE "reset"
    /\ UNCHANGED <<channels, rl_out, rl_nread>>
    /\ UNCHANGED notRelay

\* trigger_relays, lines 28-29: one iteration of the second loop.
RelayReset ==
    /\ rl_pc = "reset"
    /\ relays' = [relays EXCEPT ![rl_idx] = TRUE]
    /\ rl_idx' = rl_idx + 1
    /\ rl_pc' = IF rl_idx + 1 = Len(relay_pins) THEN "complete" ELSE "reset"
    /\ UNCHANGED <<channels, rl_out, rl_nread>>
    /\ UNCHANGED notRelay

\* trigger_relays, lines 31-32: the success line; back to main's loop.
RelayComplete ==
    /\ rl_pc = "complete"
    /\ RelaySay("success", "triggerComplete")
    /\ rl_pc' = "wait"
    /\ UNCHANGED <<relays, channels, rl_idx, rl_nread>>
    /\ UNCHANGED notRelay

\* main, line 47: stdin is at EOF; the script ends.
RelayEof ==
    /\ rl_pc = "wait"
    /\ rl_pc' = "exit"
    /\ UNCHANGED <<relays, channels, rl_idx, rl_out, rl_nread>>
    /\ UNCHANGED notRelay

InitRelay ==
    /\ InitLockFile /\ InitProcs /\ InitPrinter /\ NoButton
    /\ NoRelay /\ NoInit /\ NoWeb /\ NoFire /\ NoScan /\ NoLed

NextRelay ==
    \/ RelayConstruct
    \/ RelayConstructFails
    \/ RelayTrigger
    \/ RelayRejects
    \/ RelayActivate
    \/ RelaySleep
    \/ RelayReset
    \/ RelayComplete
    \/ RelayEof

SpecRelay == InitRelay /\ [][NextRelay]_vars

----------------------------------------------------------------------------
(* printer_init_script.py *)

MAX_RETRIES == 3        \* line 133

\* print_json: a status line; n is the number a message carries, if any.
InitSay(status, text, n) ==
    pi_out' = Append(pi_out, [status |-> status, text |-> text, n |-> n])

\* main, lines 444-446, and __init__, lines 104-135: the constructor
\* returns, with or without the cached-pyusb progress line of line 75.
InitMainConstruct ==
    /\ pi_pc = "start"
    /\ \/ InitSay("progress", "Using cached pyusb installation", 0)
       \/ UNCHANGED pi_out
    /\ pi_pc' = "loop"
    /\ attempt' = 0
    /\ UNCHANGED <<config_attempts, pi_device>>
    /\ UNCHANGED notInit

\* main, lines 444-453, and __init__, lines 109-124: the constructor exits
\* (not root, udev set-up or pyusb installation failed) or raises.
InitMainQuits ==
    /\ pi_pc = "start"
    /\ \E text \in {"This script must be run as root", "Failed to set up USB permissions",
                    "Failed to install pyusb", "Unexpected error"} :
           InitSay("error", text, 0)
    /\ pi_pc' = "quit"
    /\ UNCHANGED <<attempt, config_attempts, pi_device>>
    /\ UNCHANGED notInit

\* initialize_printer, lines 302-313: the loop test holds; the progress
\* line, cleanup() and kill_competing_processes().
InitAttempt ==
    /\ pi_pc = "loop"
    /\ attempt < MAX_RETRIES
    /\ InitSay("progress", "Attempting printer initialization", attempt + 1)
    /\ pi_device' = FALSE
    /\ pi_pc' = "find"
    /\ UNCHANGED <<attempt, config_attempts>>
    /\ UNCHANGED notInit

\* initialize_printer, lines 316-338, and find_printer, lines 183-200: the
\* printer is found, or find_printer reports why not and the attempt is
\* counted; a failing reset or detach is ignored.
InitFind ==
    /\ pi_pc = "find"
    /\ \/ /\ pi_device' = TRUE
          /\ config_attempts' = 3
          /\ pi_pc' = "configure"
          /\ UNCHANGED <<attempt, pi_out>>
       \/ /\ \E text \in {"Printer not found. Please check connection.",
                          "Error finding printer"} : InitSay("error", text, 0)
          /\ attempt' = attempt + 1
          /\ pi_pc' = "loop"
          /\ UNCHANGED <<config_attempts, pi_device>>
    /\ UNCHANGED notInit

\* initialize_printer, lines 339-350: set_configuration() succeeds, or is
\* retried while the resource is busy (errno 16) and config_attempts > 1,
\* or raises.
InitConfigure ==
    /\ pi_pc = "configure"
    /\ config_attempts > 0
    /\ \/ /\ pi_pc' = "endpoints"
          /\ UNCHANGED config_attempts
       \/ /\ config_attempts > 1
          /\ config_attempts' = config_attempts - 1
          /\ UNCHANGED pi_pc
       \/ /\ pi_pc' = "failed"
          /\ UNCHANGED config_attempts
    /\ UNCHANGED <<attempt, pi_device, pi_out>>
    /\ UNCHANGED notInit

\* initialize_printer, lines 353-397: configuration, interface and
\* endpoints are found and the interface claimed, or an exception is raised.
InitEndpoints ==
    /\ pi_pc = "endpoints"
    /\ pi_pc' \in {"commands", "failed"}
    /\ UNCHANGED <<attempt, config_attempts, pi_device, pi_out>>
    /\ UNCHANGED notInit

\* initialize_printer, lines 400-419, and write, lines 279-297: the four
\* commands are written, or a write raises.
InitWrites ==
    /\ pi_pc = "commands"
    /\ pi_pc' \in {"initialized", "failed"}
    /\ UNCHANGED <<attempt, config_attempts, pi_device, pi_out>>
    /\ UNCHANGED notInit

\* initialize_printer, lines 421-423, and main, line 447: success, return
\* True, exit status 0.
InitReturnsTrue ==
    /\ pi_pc = "initialized"
    /\ InitSay("success", "Printer initialized successfully", 0)
    /\ pi_pc' = "exit0"
    /\ UNCHANGED <<attempt, config_attempts, pi_device>>
    /\ UNCHANGED notInit

\* Mutant of InitAttemptFails: the exception ends initialize_printer.
InitAttemptFails_Aborts ==
    /\ pi_pc = "failed"
    /\ InitSay("error", "exception", 0)
    /\ pi_device' = FALSE
    /\ attempt' = attempt + 1
    /\ pi_pc' = "exit1"
    /\ UNCHANGED config_attempts
    /\ UNCHANGED notInit

\* initialize_printer, lines 425-432: the attempt's exception is reported,
\* cleanup() runs and the attempt is counted.
InitAttemptFails ==
    /\ pi_pc = "failed"
    /\ InitSay("error", "exception", 0)
    /\ pi_device' = FALSE
    /\ attempt' = attempt + 1
    /\ pi_pc' = "loop"
    /\ UNCHANGED config_attempts
    /\ UNCHANGED notInit

\* initialize_printer, lines 302 and 434-439, and main, line 447: the loop
\* test fails; the final error, return False, exit status 1.
InitReturnsFalse ==
    /\ pi_pc = "loop"
    /\ ~(attempt < MAX_RETRIES)
    /\ InitSay("error", "Printer initialization failed after attempts", MAX_RETRIES)
    /\ pi_pc' = "exit1"
    /\ UNCHANGED <<attempt, config_attempts, pi_device>>
    /\ UNCHANGED notInit

InitInit ==
    /\ InitLockFile /\ InitProcs /\ InitPrinter /\ NoButton
    /\ NoRelay /\ NoInit /\ NoWeb /\ NoFire /\ NoScan /\ NoLed

NextInit ==
    \/ InitMainConstruct
    \/ InitMainQuits
    \/ InitAttempt
    \/ InitFind
    \/ InitConfigure
    \/ InitEndpoints
    \/ InitWrites
    \/ InitReturnsTrue
    \/ InitAttemptFails
    \/ InitReturnsFalse

SpecInit == InitInit /\ [][NextInit]_vars

----------------------------------------------------------------------------
(* webhook_script.py *)

MaxRequests == 2        \* POST requests the webhook receives

Requests == 1..MaxRequests
Actions == {"open", "close"}

\* webhook, lines 25-30: a request with an action arrives; its handler
\* thread puts the action on the queue.
WebhookPut(r) ==
    /\ wh_req[r].at = "idle"
    /\ \E a \in Actions :
          /\ action_queue' = Append(action_queue, a)
          /\ wh_req' = [wh_req EXCEPT ![r] = [at |-> "start", action |-> a]]
    /\ UNCHANGED <<wh_thr, wh_out>>
    /\ UNCHANGED notWeb

\* webhook, lines 29 and 35-36: a request without an action is refused.
WebhookRefuses(r) ==
    /\ wh_req[r].at = "idle"
    /\ wh_req' = [wh_req EXCEPT ![r].at = "done"]
    /\ UNCHANGED <<action_queue, wh_thr, wh_out>>
    /\ UNCHANGED notWeb

\* webhook, line 31: threading.Thread(target=clear_queue).start().
WebhookStart(r) ==
    /\ wh_req[r].at = "start"
    /\ wh_req' = [wh_req EXCEPT ![r].at = "print"]
    /\ wh_thr' = [wh_thr EXCEPT ![r] = "sleep"]
    /\ UNCHANGED <<action_queue, wh_out>>
    /\ UNCHANGED notWeb

\* webhook, lines 32-34: the action line is written and the request answered.
WebhookPrint(r) ==
    /\ wh_req[r].at = "print"
    /\ wh_out' = Append(wh_out, wh_req[r].action)
    /\ wh_req' = [wh_req EXCEPT ![r].at = "done"]
    /\ UNCHANGED <<action_queue, wh_thr>>
    /\ UNCHANGED notWeb

\* clear_queue, line 19: time.sleep(1) is over.
ClearSleep(r) ==
    /\ wh_thr[r] = "sleep"
    /\ wh_thr' = [wh_thr EXCEPT ![r] = "test"]
    /\ UNCHANGED <<action_queue, wh_req, wh_out>>
    /\ UNCHANGED notWeb

\* clear_queue, line 20: while not action_queue.empty().
ClearTest(r) ==
    /\ wh_thr[r] = "test"
    /\ wh_thr' = [wh_thr EXCEPT ![r] = IF action_queue = <<>> THEN "done" ELSE "get"]
    /\ UNCHANGED <<action_queue, wh_req, wh_out>>
    /\ UNCHANGED notWeb

\* clear_queue, line 21: action_queue.get() blocks while the queue is empty.
ClearGet(r) ==
    /\ wh_thr[r] = "get"
    /\ action_queue # <<>>
    /\ action_queue' = Tail(action_queue)
    /\ wh_thr' = [wh_thr EXCEPT ![r] = "test"]
    /\ UNCHANGED <<wh_req, wh_out>>
    /\ UNCHANGED notWeb

InitWeb ==
    /\ InitLockFile /\ InitProcs /\ InitPrinter /\ NoButton
    /\ NoRelay /\ NoInit /\ NoFire /\ NoScan /\ NoLed
    /\ action_queue = <<>>
    /\ wh_req = [r \in Requests |-> [at |-> "idle", action |-> "none"]]
    /\ wh_thr = [r \in Requests |-> "none"]
    /\ wh_out = <<>>

NextWeb ==
    \E r \in Requests :
        \/ WebhookPut(r)
        \/ WebhookRefuses(r)
        \/ WebhookStart(r)
        \/ WebhookPrint(r)
        \/ ClearSleep(r)
        \/ ClearTest(r)
        \/ ClearGet(r)

SpecWeb == InitWeb /\ [][NextWeb]_vars

\* Every thread that can take a step eventually takes one; whether a
\* request arrives is up to the clients.
FairWeb ==
    \A r \in Requests :
        /\ WF_vars(WebhookStart(r))
        /\ WF_vars(WebhookPrint(r))
        /\ WF_vars(ClearSleep(r))
        /\ WF_vars(ClearTest(r))
        /\ WF_vars(ClearGet(r))

SpecWebLive == SpecWeb /\ FairWeb

----------------------------------------------------------------------------
(* firebase_script.py *)

MaxWrites == 3          \* actions the backend writes while the watch runs

\* A snapshot of the device document as the watch delivers it.
Snapshot(type, action) == [type |-> type, action |-> action]

\* start_firebase_listener, lines 75-97: the watch is attached; its first
\* snapshot reports the document as ADDED; ready is written.
FireStart ==
    /\ fb_pc = "start"
    /\ fb_snaps' = Append(fb_snaps, Snapshot("ADDED", fb_doc))
    /\ fb_out' = Append(fb_out, [method |-> "ready", action |-> "none"])
    /\ fb_pc' = "listening"
    /\ UNCHANGED <<fb_doc, fb_writes>>
    /\ UNCHANGED notFire

\* start_firebase_listener, lines 98-103: initialisation fails; error, exit.
FireStartFails ==
    /\ fb_pc = "start"
    /\ fb_out' = Append(fb_out, [method |-> "error", action |-> "none"])
    /\ fb_pc' = "exit"
    /\ UNCHANGED <<fb_doc, fb_snaps, fb_writes>>
    /\ UNCHANGED notFire

\* The backend writes an action into the device document; the watch will
\* deliver the new version as MODIFIED.
BackendWrites ==
    /\ fb_pc \in {"listening", "update"}
    /\ fb_writes < MaxWrites
    /\ fb_writes' = fb_writes + 1
    /\ \E a \in Actions :
          /\ fb_doc' = a
          /\ fb_snaps' = Append(fb_snaps, Snapshot("MODIFIED", a))
    /\ UNCHANGED <<fb_pc, fb_out>>
    /\ UNCHANGED notFire

\* Mutant of FireDeliver: the test `if action:` of line 51 left out.
FireDeliver_EveryModified ==
    /\ fb_pc = "listening"
    /\ fb_snaps # <<>>
    /\ fb_snaps' = Tail(fb_snaps)
    /\ IF Head(fb_snaps).type = "MODIFIED"
          THEN /\ fb_out' = Append(fb_out, [method |-> "action",
                                            action |-> Head(fb_snaps).action])
               /\ fb_pc' = "update"
          ELSE UNCHANGED <<fb_out, fb_pc>>
    /\ UNCHANGED <<fb_doc, fb_writes>>
    /\ UNCHANGED notFire

\* handle_document_change, lines 46-54: the next snapshot is delivered; a
\* MODIFIED one with an action is reported.
FireDeliver ==
    /\ fb_pc = "listening"
    /\ fb_snaps # <<>>
    /\ fb_snaps' = Tail(fb_snaps)
    /\ IF Head(fb_snaps).type = "MODIFIED" /\ Head(fb_snaps).action # "none"
          THEN /\ fb_out' = Append(fb_out, [method |-> "action",
                                            action |-> Head(fb_snaps).action])
               /\ fb_pc' = "update"
          ELSE UNCHANGED <<fb_out, fb_pc>>
    /\ UNCHANGED <<fb_doc, fb_writes>>
    /\ UNCHANGED notFire

\* handle_document_change, lines 56-59: update({'action': DELETE_FIELD});
\* the write gives the document a new version, which the watch delivers.
FireUpdate ==
    /\ fb_pc = "update"
    /\ fb_doc' = "none"
    /\ fb_snaps' = Append(fb_snaps, Snapshot("MODIFIED", "none"))
    /\ fb_pc' = "listening"
    /\ UNCHANGED <<fb_out, fb_writes>>
    /\ UNCHANGED notFire

\* handle_document_change, lines 60-64: the update raises; the error line.
FireUpdateFails ==
    /\ fb_pc = "update"
    /\ fb_out' = Append(fb_out, [method |-> "error", action |-> "none"])
    /\ fb_pc' = "listening"
    /\ UNCHANGED <<fb_doc, fb_snaps, fb_writes>>
    /\ UNCHANGED notFire

InitFire ==
    /\ InitLockFile /\ InitProcs /\ InitPrinter /\ NoButton
    /\ NoRelay /\ NoInit /\ NoWeb /\ NoScan /\ NoLed
    /\ fb_doc \in {"none"} \cup Actions
    /\ fb_snaps = <<>>
    /\ fb_pc = "start"
    /\ fb_out = <<>>
    /\ fb_writes = 0

NextFire ==
    \/ FireStart
    \/ FireStartFails
    \/ BackendWrites
    \/ FireDeliver
    \/ FireUpdate
    \/ FireUpdateFails

SpecFire == InitFire /\ [][NextFire]_vars

----------------------------------------------------------------------------
(* scanner.py *)

MaxCode == 2            \* longest barcode the scanner types
MaxScans == 1           \* barcodes the scanner sends

\* Key names of evdev, as Python strings: sequences of characters.
KEY_1 == <<"K", "E", "Y", "_", "1">>
KEY_7 == <<"K", "E", "Y", "_", "7">>
KEY_A == <<"K", "E", "Y", "_", "A">>
KEY_ENTER == <<"K", "E", "Y", "_", "E", "N", "T", "E", "R">>
KEY_LEFTSHIFT == <<"K", "E", "Y", "_", "L", "E", "F", "T", "S", "H", "I", "F", "T">>
KEY_KP1 == <<"K", "E", "Y", "_", "K", "P", "1">>
KEY_102ND == <<"K", "E", "Y", "_", "1", "0", "2", "N", "D">>
BTN_0 == <<"B", "T", "N", "_", "0">>
KeyNames == {KEY_1, KEY_7, KEY_A, KEY_ENTER, KEY_LEFTSHIFT, KEY_KP1, KEY_102ND, BTN_0}

\* Input events: type EV_KEY or another, value 0 (up), 1 (down), 2 (hold).
Events == [type : {"EV_KEY", "EV_MSC"}, value : 0..2, keycode : KeyNames]

\* str.startswith.
StartsWith(str, prefix) ==
    Len(str) >= Len(prefix) /\ SubSeq(str, 1, Len(prefix)) = prefix

\* str.split(sep) for a separator of one character.
RECURSIVE Split(_, _)
Split(str, sep) ==
    IF \E k \in 1..Len(str) : str[k] = sep
       THEN LET k == CHOOSE k \in 1..Len(str) :
                        str[k] = sep /\ \A j \in 1..(k - 1) : str[j] # sep
            IN  <<SubSeq(str, 1, k - 1)>> \o Split(SubSeq(str, k + 1, Len(str)), sep)
       ELSE <<str>>

\* str.isdigit.
IsDigit(str) ==
    str # <<>> /\ \A k \in 1..Len(str) :
                      str[k] \in {"0", "1", "2", "3", "4", "5", "6", "7", "8", "9"}

\* Mutant of Typed: the length test of line 33 left out.
Typed_AnyLength(code, keycode) ==
    IF StartsWith(keycode, <<"K", "E", "Y", "_">>)
       THEN code \o Split(keycode, "_")[2]
       ELSE code

\* main, lines 31-36: the buffer after a key-down of a key other than
\* KEY_ENTER.
Typed(code, keycode) ==
    IF StartsWith(keycode, <<"K", "E", "Y", "_">>)
       THEN LET char == Split(keycode, "_")[2]
            IN  IF Len(char) = 1 THEN code \o char
                ELSE IF IsDigit(char) THEN code \o char
                ELSE code
       ELSE code

\* main, lines 14-21: the scanner is found; ready.
ScanStart ==
    /\ sc_pc = "start"
    /\ sc_pc' = "reading"
    /\ UNCHANGED <<scanned_code, sc_out, sc_typed>>
    /\ UNCHANGED notScan

\* main, lines 15-18: no scanner; error and return.
ScanNotFound ==
    /\ sc_pc = "start"
    /\ sc_pc' = "exit"
    /\ UNCHANGED <<scanned_code, sc_out, sc_typed>>
    /\ UNCHANGED notScan

\* main, lines 24-36: one event of read_loop() is handled.  sc_typed keeps,
\* for the property, the characters of the keys 0-9 and A-Z pressed since
\* the last KEY_ENTER.
ScanEvent ==
    /\ sc_pc = "reading"
    /\ \E event \in Events :
          LET down == event.type = "EV_KEY" /\ event.value = 1
              grows == down /\ event.keycode \in {KEY_1, KEY_7, KEY_A}
          IN  /\ (down /\ event.keycode = KEY_ENTER) => Len(sc_out) < MaxScans
              /\ grows => Len(sc_typed) < MaxCode
              /\ IF down
                    THEN IF event.keycode = KEY_ENTER
                            THEN /\ sc_out' = Append(sc_out, scanned_code)
                                 /\ scanned_code' = <<>>
                            ELSE /\ scanned_code' = Typed(scanned_code, event.keycode)
                                 /\ UNCHANGED sc_out
                    ELSE UNCHANGED <<scanned_code, sc_out>>
              /\ sc_typed' = IF down /\ event.keycode = KEY_ENTER THEN <<>>
                             ELSE IF grows
                                     THEN Append(sc_typed, event.keycode[Len(event.keycode)])
                                     ELSE sc_typed
    /\ UNCHANGED sc_pc
    /\ UNCHANGED notScan

InitScan ==
    /\ InitLockFile /\ InitProcs /\ InitPrinter /\ NoButton
    /\ NoRelay /\ NoInit /\ NoWeb /\ NoFire /\ NoScan /\ NoLed

NextScan ==
    \/ ScanStart
    \/ ScanNotFound
    \/ ScanEvent

SpecScan == InitScan /\ [][NextScan]_vars

----------------------------------------------------------------------------
(* led_and_buzzer_script.py *)

KnownModes == {"pulse", "solid", "flash", "animate_up", "animate_down"}

\* A line of stdin: method is data["method"] ("invalid": the line is no
\* JSON; "missing": it has no such key), mode is data["mode"], and valid
\* says that color and duration are present and usable.
LedLine(method, mode, valid) == [method |-> method, mode |-> mode, valid |-> valid]
LedLines ==
    {LedLine("effect", m, v) : m \in KnownModes \cup {"rainbow"}, v \in BOOLEAN}
    \cup {LedLine("buzz", "none", v) : v \in BOOLEAN}
    \cup {LedLine(m, "none", TRUE) : m \in {"stop", "invalid", "missing"}}

LedSay(method, message) ==
    led_out' = Append(led_out, [method |-> method, message |-> message])

\* main, lines 109-111: the controller is constructed; ready.
LedConstruct ==
    /\ led_pc = "start"
    /\ LedSay("ready", "")
    /\ led_pc' = "wait"
    /\ UNCHANGED <<led_cmd, led_nread>>
    /\ UNCHANGED notLed

\* main, lines 113-115: a line is read.
LedRead ==
    /\ led_pc = "wait"
    /\ led_nread < MaxLines
    /\ led_nread' = led_nread + 1
    /\ led_cmd' \in LedLines
    /\ led_pc' = "handle"
    /\ UNCHANGED led_out
    /\ UNCHANGED notLed

\* main, lines 115 and 125-127: json.loads raises JSONDecodeError.
LedInvalidJson ==
    /\ led_pc = "handle" /\ led_cmd.method = "invalid"
    /\ LedSay("error", "Invalid JSON")
    /\ led_pc' = "wait"
    /\ UNCHANGED <<led_cmd, led_nread>>
    /\ UNCHANGED notLed

\* main, lines 116-117, and run_effect, lines 94-106: an effect of a known
\* mode runs, or raises on a missing or unusable colour or duration; an
\* unknown mode is reported and run_effect returns.
LedRunEffect ==
    /\ led_pc = "handle" /\ led_cmd.method = "effect"
    /\ IF ~led_cmd.valid /\ led_cmd.mode \in KnownModes
          THEN led_pc' = "raised" /\ UNCHANGED led_out
          ELSE IF led_cmd.mode \in KnownModes
                  THEN led_pc' = "returned" /\ UNCHANGED led_out
                  ELSE \/ /\ led_cmd.valid
                          /\ LedSay("error", "Unknown mode")
                          /\ led_pc' = "returned"
                       \/ /\ ~led_cmd.valid       \* data["color"]: KeyError
                          /\ led_pc' = "raised" /\ UNCHANGED led_out
    /\ UNCHANGED <<led_cmd, led_nread>>
    /\ UNCHANGED notLed

\* main, lines 118 and 124: run_effect has returned; effectComplete.
LedEffectComplete ==
    /\ led_pc = "returned"
    /\ LedSay("effectComplete", "")
    /\ led_pc' = "wait"
    /\ UNCHANGED <<led_cmd, led_nread>>
    /\ UNCHANGED notLed

\* main, lines 119-124: the buzzer sounds for the duration; buzzComplete;
\* a missing or unusable duration raises at line 121.
LedBuzz ==
    /\ led_pc = "handle" /\ led_cmd.method = "buzz"
    /\ IF led_cmd.valid
          THEN LedSay("buzzComplete", "") /\ led_pc' = "wait"
          ELSE led_pc' = "raised" /\ UNCHANGED led_out
    /\ UNCHANGED <<led_cmd, led_nread>>
    /\ UNCHANGED notLed

\* main, lines 116, 119 and 124: a method that is neither effect nor buzz
\* falls through both tests; only stdout is flushed.
LedOtherMethod ==
    /\ led_pc = "handle" /\ led_cmd.method = "stop"
    /\ led_pc' = "wait"
    /\ UNCHANGED <<led_cmd, led_out, led_nread>>
    /\ UNCHANGED notLed

\* main, line 116: data["method"] raises KeyError (or TypeError when the
\* line is no JSON object).
LedNoMethod ==
    /\ led_pc = "handle" /\ led_cmd.method = "missing"
    /\ led_pc' = "raised"
    /\ UNCHANGED <<led_cmd, led_out, led_nread>>
    /\ UNCHANGED notLed

\* main, lines 128-130: any other exception is reported.
LedCatch ==
    /\ led_pc = "raised"
    /\ LedSay("error", "exception")
    /\ led_pc' = "wait"
    /\ UNCHANGED <<led_cmd, led_nread>>
    /\ UNCHANGED notLed

\* main, line 113: stdin is at EOF.
LedEof ==
    /\ led_pc = "wait"
    /\ led_pc' = "exit"
    /\ UNCHANGED <<led_cmd, led_out, led_nread>>
    /\ UNCHANGED notLed

InitLed ==
    /\ InitLockFile /\ InitProcs /\ InitPrinter /\ NoButton
    /\ NoRelay /\ NoInit /\ NoWeb /\ NoFire /\ NoScan /\ NoLed

NextLed ==
    \/ LedConstruct
    \/ LedRead
    \/ LedInvalidJson
    \/ LedRunEffect
    \/ LedEffectComplete
    \/ LedBuzz
    \/ LedOtherMethod
    \/ LedNoMethod
    \/ LedCatch
    \/ LedEof

SpecLed == InitLed /\ [][NextLed]_vars

----------------------------------------------------------------------------
(* print_image's raster conversion on its own *)

MaxImgWidth == 3        \* images up to this width are taken with every content
MaxImgHeight == 2       \* and up to this height

\* Every black-and-white image of the small sizes.
SmallImages ==
    UNION {[1..h -> [1..w -> {0, 1}]] : w \in 1..MaxImgWidth, h \in 1..MaxImgHeight}

\* Rows around the byte boundaries and beyond max_width: stripes of period p
\* starting with `first`.
Stripes(w, p, first) == [x \in 1..w |-> IF ((x - 1) \div p) % 2 = 0 THEN first ELSE 1 - first]
WideImages ==
    {[y \in 1..h |-> Stripes(w, p, (y + f) % 2)] :
        w \in {7, 8, 9, 16, 17, max_width, max_width + 1, max_width + 24},
        h \in {1 + MaxImgHeight}, p \in {1, 3}, f \in {0, 1}}

Images == SmallImages \cup WideImages

InitRaster ==
    /\ InitLockFile /\ InitProcs /\ NoButton /\ NoScripts
    /\ \E px \in Images :
          /\ cmd = [key |-> "image", v |-> 1, px |-> px]
          /\ stack = <<Frame("print_image", [key |-> "image", v |-> 1, px |-> px])>>
    /\ flow = "run"
    /\ exc = "none"
    /\ rv = FALSE
    /\ device = TRUE
    /\ printer = TRUE
    /\ nread = 1
    /\ wire = <<>>
    /\ probe = TRUE
    /\ faults = 0

NextRaster ==
    \/ PrintImageReset
    \/ PrintImageDecode
    \/ PrintImageHeader
    \/ PrintImageChunk
    \/ PrintImageReturn
    \/ SendWrite
    \/ SendReturn

SpecRaster == InitRaster /\ [][NextRaster]_vars

----------------------------------------------------------------------------
(* Properties *)

Holds(p) == lockIno # 0 /\ inoText[lockIno] = p

\* C1: at most one running instance has had acquire_lock() return True and
\* has not yet called release_lock().  (Refuted: two instances that both find
\* LOCK_FILE absent at line 26 both write it and both return True.)
C1_MutualExclusion == Cardinality({p \in Procs : pc[p] = "running"}) <= 1

\* C2: an instance killed by the host never blocks a later instance: a call
\* of acquire_lock() made while no other instance is alive, and left alone,
\* does not return False.  (Refuted: an instance killed between lines 38 and
\* 39 leaves an empty LOCK_FILE, on which every later call returns False.)
C2_KilledNeverBlocks ==
    \A p \in Procs : (lone[p] /\ quiet[p]) => lock[p] # "false"

\* C2, first sentence: when LOCK_FILE holds the PID of a dead process, a lone
\* call removes the file, writes its own PID into a new file and returns True.
C2_StaleTakeover ==
    \A p \in Procs :
        (lone[p] /\ stale[p]) =>
            /\ lock[p] # "false"
            /\ pc[p] = "running" => lockIno = p /\ inoText[p] = p

C2_StaleTakeoverReached ==
    \E p \in Procs : lone[p] /\ stale[p] /\ pc[p] = "running"

\* C3: when LOCK_FILE holds the PID of a running process, acquire_lock()
\* returns False and leaves the file as it is; main then writes the one line
\* "Another instance running", never constructs the printer, starts no call
\* that writes to the device, and does not remove or rewrite LOCK_FILE.
C3_DeniedState ==
    lock[Me] = "false" =>
        /\ pc[Me] \in {"m_denied", "done"}
        /\ out[Me] = IF pc[Me] = "done"
                        THEN <<[status |-> "error", message |-> "Another instance running"]>>
                        ELSE <<>>
        /\ ~printer /\ ~device /\ stack = <<>> /\ faults = MaxFaults
        /\ Holds(Other)
C3_DeniedStep ==
    /\ (pc[Me] = "acq_kill" /\ Running(pid[Me]) /\ pc'[Me] # pc[Me])
            => pc'[Me] = "acq_false"
    /\ (pc'[Me] \in {"acq_kill", "acq_false", "m_denied"} \/ lock[Me] = "false")
            => UNCHANGED <<lockIno, inoText>>
C3_Denied == []C3_DeniedState /\ [][C3_DeniedStep]_vars

C3_DeniedReached == pc[Me] = "done" /\ lock[Me] = "false" /\ pid[Me] = Other

\* C4: after ready, every line read is answered by exactly one status line
\* (success, or error with a message) before the next line is read, and a
\* command that fails is followed by the next read, not by the end of the loop.
InCommand == pc[Me] \in {"m_h1", "m_h2"}
C4_OneAnswerState ==
    printer =>
        /\ out[Me][1] = [status |-> "ready", message |-> ""]
        /\ Len(out[Me]) = 1 + nread - (IF InCommand THEN 1 ELSE 0)
        /\ \A k \in 2..Len(out[Me]) :
              \/ out[Me][k] = [status |-> "success", message |-> ""]
              \/ out[Me][k].status = "error" /\ out[Me][k].message # ""
C4_OneAnswerStep ==
    (InCommand /\ pc'[Me] # pc[Me]) =>
        /\ pc'[Me] \in {"m_h2", "m_read"}
        /\ pc'[Me] = "m_read" => Len(out'[Me]) = Len(out[Me]) + 1
C4_OneAnswer == []C4_OneAnswerState /\ [][C4_OneAnswerStep]_vars

C4_OneAnswerReached ==
    /\ pc[Me] = "m_h1" /\ nread = 2
    /\ out[Me][2].status = "error"

\* C5: ready is written exactly once, after the constructor has returned and
\* before any line is read; when the constructor raises, the one line written
\* is "Printer system failure", ready is never written and no line is read.
Ready == [status |-> "ready", message |-> ""]
Failure == [status |-> "error", message |-> "Printer system failure"]
C5_ReadyOnce ==
    /\ \A k \in 1..Len(out[Me]) : out[Me][k] = Ready => (k = 1 /\ printer)
    /\ pc[Me] \in {"running", "m_construct"} => out[Me] = <<>>
    /\ nread > 0 => (out[Me] # <<>> /\ out[Me][1] = Ready)
    /\ printer => (out[Me] # <<>> /\ out[Me][1] = Ready)
    /\ (lock[Me] = "true" /\ ~printer /\ pc[Me] \notin {"running", "m_construct"})
            => (out[Me] = <<Failure>> /\ nread = 0 /\ stack = <<>>)

C5_ReadyReached == printer /\ nread = 2 /\ pc[Me] = "done"
C5_FailureReached == pc[Me] = "done" /\ out[Me] = <<Failure>>

\* C6: _initialize() gives up (raises) only with RuntimeError "Failed to
\* initialize printer after 3 attempts", after exactly 3 failed attempts,
\* whatever made an attempt fail.  (Refuted: "printer not found" is a
\* ValueError, which line 142 does not catch: it leaves _initialize at once.)
InitializeRaises ==
    /\ stack # <<>> /\ Top.fn = "_initialize"
    /\ stack' = Below /\ flow' = "raise"
C6_ThreeAttempts ==
    [][InitializeRaises => (exc' = "InitFailed" /\ Top.n + 1 = max_attempts)]_vars

\* C7: a call of _send ends by returning, or by raising USBError after the
\* third failed write of a command, also when the writes of the
\* re-initialisation fail.  The printer is found by every re-initialisation.
\* (Refuted: each failing write inside the re-initialisation starts another
\* re-initialisation before its own third attempt; the calls nest until the
\* interpreter raises RecursionError.)
SendRaises ==
    /\ stack # <<>> /\ Top.fn = "_send"
    /\ stack' = Below /\ flow' = "raise"
C7_SendEnds ==
    [][(SendRaises /\ exc' # "NotFound")
            => (exc' = "USBError" /\ Top.n + 1 = Retries)]_vars

\* C8: when no write fails, _send writes a command of at most 1024 bytes in
\* one write and a longer one as consecutive writes of at most 1024 bytes, in
\* order, whose concatenation is the command; commands go in list order.
RECURSIVE Concat(_)
Concat(seqs) == IF seqs = <<>> THEN <<>> ELSE Head(seqs) \o Concat(Tail(seqs))
Writes(n) == IF n <= ChunkSize THEN 1 ELSE (n + ChunkSize - 1) \div ChunkSize
RECURSIVE WritesOf(_)
WritesOf(commands) ==
    IF commands = <<>> THEN 0 ELSE Writes(Len(Head(commands))) + WritesOf(Tail(commands))
C8_Chunking ==
    (probe /\ Len(stack) = 1 /\ Top.fn = "_send") =>
        LET done == SubSeq(Top.cmds, 1, Top.i - 1)
            part == IF Top.i <= Len(Top.cmds)
                       THEN SubSeq(Top.cmds[Top.i], 1, Top.off) ELSE <<>>
        IN  /\ \A k \in 1..Len(wire) : Len(wire[k]) <= ChunkSize
            /\ Concat(wire) = Concat(done) \o part
            /\ Top.off % ChunkSize = 0
            /\ Len(wire) = WritesOf(done) + Top.off \div ChunkSize

C8_ChunkingReached ==
    /\ probe /\ Len(stack) = 1 /\ Top.fn = "_send"
    /\ Len(Top.cmds) = 2 /\ Top.i = 3
    /\ Len(Top.cmds[1]) = 2 * ChunkSize + 1 /\ Len(Top.cmds[2]) = ChunkSize
    /\ Len(wire) = 4

\* C9: on every exit path of main after the lock was acquired, release_lock()
\* has run, so LOCK_FILE no longer holds this PID; when the printer was
\* constructed, the final feed of 3 lines is called and, when it returns, the
\* full cut; an exception of either is dropped and main returns.
Finishing == pc[Me] \in {"rel_done", "m_fin1", "m_fin2", "done"}
C9_FinallyState ==
    /\ (Finishing /\ lock[Me] = "true") => ~Holds(Me)
    /\ (pc[Me] = "m_fin1" /\ stack # <<>>) =>
            /\ printer
            /\ stack[1].fn = "paper_feed" /\ FeedLines(stack[1].arg) = 3
            /\ (Len(stack) >= 2 /\ stack[2].fn = "_send")
                    => stack[2].cmds = << <<27, 74, 72>>, <<27, 100, 3>> >>
    /\ (pc[Me] = "m_fin2" /\ stack # <<>>) =>
            /\ stack[1].fn = "cut_paper"
            /\ (stack[1].at = 2 /\ Len(stack) >= 2 /\ stack[2].fn = "_send")
                    => stack[2].cmds = << <<29, 86, 0>> >>
    /\ pc[Me] = "done" => (stack = <<>> /\ flow = "run" /\ exc = "none")
C9_FinallyStep ==
    /\ (pc[Me] = "rel_done" /\ pc'[Me] # pc[Me])
            => pc'[Me] = IF printer THEN "m_fin1" ELSE "done"
    /\ (pc[Me] = "m_fin1" /\ stack = <<>> /\ pc'[Me] # pc[Me])
            => pc'[Me] = IF flow = "ret" THEN "m_fin2" ELSE "done"
    /\ (pc[Me] = "m_fin2" /\ stack = <<>> /\ pc'[Me] # pc[Me]) => pc'[Me] = "done"
    /\ (pc[Me] \in {"m_read", "m_construct"} /\ pc'[Me] \notin {pc[Me], "m_read", "m_h1"})
            => pc'[Me] = "rel_exists"
    /\ Finishing => out'[Me] = out[Me]
C9_Finally == []C9_FinallyState /\ [][C9_FinallyStep]_vars

C9_FinallyReached ==
    /\ pc[Me] = "m_fin2" /\ stack = <<>> /\ flow = "ret"
    /\ printer /\ lockIno = 0

\* C10: consecutive buttonPressed messages carry timestamps more than 0.3 s
\* apart; a press within 0.3 s of the last reported one writes nothing and
\* leaves last_press_time as it is.
C10_DebounceState ==
    /\ \A k \in 1..(Len(pressed) - 1) : pressed[k + 1] - pressed[k] > debounce_time
    /\ last_press_time = IF pressed = <<>> THEN 0 ELSE pressed[Len(pressed)]
C10_DebounceStep ==
    (presses' = presses + 1 /\ now - last_press_time <= debounce_time)
        => UNCHANGED <<pressed, last_press_time>>
C10_Debounce == []C10_DebounceState /\ [][C10_DebounceStep]_vars

C10_DebounceReached ==
    /\ Len(pressed) = 2 /\ presses = 4
    /\ pressed[2] - pressed[1] = debounce_time + 1

\* C11: while trigger_relays sleeps, exactly the relays whose index is in the
\* channels list are activated (value FALSE, active low); every relay is
\* released before triggerComplete is written; and whenever relay_script
\* waits for the next command every relay is released.
Released == \A i \in RelayIdx : relays[i]
C11_TriggerState ==
    /\ rl_pc = "sleep" => \A i \in RelayIdx : ~relays[i] <=> InList(i, channels)
    /\ rl_pc \in {"complete", "wait"} => Released
C11_TriggerStep ==
    /\ rl_pc = "sleep" => relays' = relays /\ rl_pc' = "reset"
    /\ (rl_out' # rl_out /\ rl_out'[Len(rl_out')].status = "success")
          => Released /\ rl_pc = "complete" /\ Len(rl_out') = Len(rl_out) + 1
C11_Trigger == []C11_TriggerState /\ [][C11_TriggerStep]_vars

C11_TriggerReached ==
    /\ rl_pc = "wait" /\ channels.items = <<2, 0>>
    /\ rl_out # <<>> /\ rl_out[Len(rl_out)].status = "success"

\* C12: initialize_printer() makes at most MAX_RETRIES attempts and writes
\* one progress line per attempt, numbered in order; it returns True at the
\* first attempt that completes; it returns False, after the final error
\* naming MAX_RETRIES attempts, only when MAX_RETRIES attempts have failed;
\* and a failed attempt is followed by the next one while any is left.
RECURSIVE CountIn(_, _, _)
CountIn(seq, status, text) ==
    IF seq = <<>> THEN 0
    ELSE (IF Head(seq).status = status /\ Head(seq).text = text THEN 1 ELSE 0)
         + CountIn(Tail(seq), status, text)
Attempts == CountIn(pi_out, "progress", "Attempting printer initialization")
InAttempt == pi_pc \in {"find", "configure", "endpoints", "commands", "initialized", "failed"}
C12_RetriesState ==
    /\ Attempts <= MAX_RETRIES
    /\ pi_pc # "start" /\ pi_pc # "quit" =>
          Attempts = attempt + (IF InAttempt \/ pi_pc = "exit0" THEN 1 ELSE 0)
    /\ \A k \in 1..Len(pi_out) :
          pi_out[k].text = "Attempting printer initialization" =>
              pi_out[k].n = CountIn(SubSeq(pi_out, 1, k), "progress",
                                    "Attempting printer initialization")
    /\ pi_pc = "exit0" =>
          /\ pi_out[Len(pi_out)].status = "success"
          /\ CountIn(pi_out, "success", "Printer initialized successfully") = 1
          /\ CountIn(pi_out, "error", "Printer initialization failed after attempts") = 0
    /\ pi_pc = "exit1" =>
          /\ attempt = MAX_RETRIES /\ Attempts = MAX_RETRIES
          /\ pi_out[Len(pi_out)].text = "Printer initialization failed after attempts"
          /\ pi_out[Len(pi_out)].n = 3
          /\ CountIn(pi_out, "success", "Printer initialized successfully") = 0
    /\ CountIn(pi_out, "error", "Printer initialization failed after attempts") > 0
          => pi_pc = "exit1"
C12_RetriesStep ==
    /\ (InAttempt /\ attempt' = attempt + 1) => pi_pc' = "loop"
    /\ (pi_pc = "loop" /\ attempt < MAX_RETRIES) => pi_pc' = "find"
    /\ pi_pc' = "exit0" => pi_pc = "initialized"
C12_Retries == []C12_RetriesState /\ [][C12_RetriesStep]_vars

C12_RetriesReached ==
    /\ pi_pc = "exit0" /\ attempt = 2
    /\ \E k \in 1..Len(pi_out) : pi_out[k].text = "exception"
    /\ \E k \in 1..Len(pi_out) : pi_out[k].text = "Printer not found. Please check connection."

C12_GivesUpReached == pi_pc = "exit1"

\* C13: every action put on action_queue is eventually removed, and every
\* clear_queue thread a request has started terminates.  (Refuted: two
\* threads both find the queue non-empty at line 20, one takes the last
\* action, the other blocks in get() at line 21 for ever.)
C13_QueueDrains ==
    /\ (action_queue # <<>>) ~> (action_queue = <<>>)
    /\ \A r \in Requests : (wh_thr[r] = "sleep") ~> (wh_thr[r] = "done")

\* C13, first half: every action put on action_queue is eventually removed.
C13_ActionsRemoved == (action_queue # <<>>) ~> (action_queue = <<>>)

\* C13, as a state: with every request answered, no thread waits in get() on
\* an empty queue.
C13_NoThreadStuck ==
    ~ /\ \A r \in Requests : wh_req[r].at = "done"
      /\ action_queue = <<>>
      /\ \E r \in Requests : wh_thr[r] = "get"

\* C14: a MODIFIED snapshot whose action is set makes the handler write one
\* action line and then delete the field; a snapshot without an action (the
\* one the deletion causes, or the first, ADDED one) writes nothing and
\* starts no deletion; so the action lines written plus the action snapshots
\* still to be delivered always equal the actions the backend has written.
RECURSIVE ActionLines(_)
ActionLines(lines) ==
    IF lines = <<>> THEN <<>>
    ELSE (IF Head(lines).method = "action" THEN <<Head(lines).action>> ELSE <<>>)
         \o ActionLines(Tail(lines))
RECURSIVE ActionSnapshots(_)
ActionSnapshots(snaps) ==
    IF snaps = <<>> THEN <<>>
    ELSE (IF Head(snaps).type = "MODIFIED" /\ Head(snaps).action # "none"
             THEN <<Head(snaps).action>> ELSE <<>>)
         \o ActionSnapshots(Tail(snaps))
C14_OnceState ==
    /\ Len(ActionLines(fb_out)) + Len(ActionSnapshots(fb_snaps)) = fb_writes
    /\ \A k \in 1..Len(fb_out) : fb_out[k].method = "action" => fb_out[k].action \in Actions
C14_OnceStep ==
    /\ (fb_snaps # <<>> /\ fb_snaps' = Tail(fb_snaps)) =>
          IF Head(fb_snaps).type = "MODIFIED" /\ Head(fb_snaps).action # "none"
             THEN /\ fb_out' = Append(fb_out, [method |-> "action",
                                               action |-> Head(fb_snaps).action])
                  /\ fb_pc' = "update"
             ELSE fb_out' = fb_out /\ fb_pc' = "listening"
    /\ fb_pc = "update" /\ fb_pc' = "listening" /\ fb_out' = fb_out => fb_doc' = "none"
C14_Once == []C14_OnceState /\ [][C14_OnceStep]_vars

C14_OnceReached ==
    /\ fb_pc = "listening" /\ fb_snaps = <<>> /\ fb_doc = "none" /\ fb_writes = 2
    /\ ActionLines(fb_out) = <<"open", "close">>
    /\ fb_out[Len(fb_out)].method = "action"

\* C15: the buffer is always the single-character keys (0-9, A-Z) pressed
\* since the last KEY_ENTER key-down, in order; one scanned message is
\* written per KEY_ENTER key-down, its barcode is the buffer, and the buffer
\* is empty afterwards; no other event changes the buffer or writes.
C15_BarcodeState == scanned_code = sc_typed
C15_BarcodeStep ==
    /\ sc_out' # sc_out =>
          /\ sc_out' = Append(sc_out, sc_typed)
          /\ scanned_code' = <<>>
    /\ scanned_code' # scanned_code =>
          \/ sc_out' = Append(sc_out, scanned_code) /\ scanned_code' = <<>>
          \/ /\ sc_out' = sc_out
             /\ \E c \in {"1", "7", "A"} : scanned_code' = Append(scanned_code, c)
C15_Barcode == []C15_BarcodeState /\ [][C15_BarcodeStep]_vars

C15_BarcodeReached ==
    /\ sc_out = << <<"1", "A">> >>
    /\ scanned_code = <<"7">>

\* C16: effectComplete is written only after an effect of a known mode has
\* run; an effect command with an unknown mode gets the error 'Unknown
\* mode' and no effectComplete.  (Refuted: run_effect returns normally
\* after reporting the unknown mode, and line 118 writes effectComplete.)
C16_EffectComplete ==
    [][(led_out' # led_out /\ led_out'[Len(led_out')].method = "effectComplete")
          => led_cmd.method = "effect" /\ led_cmd.mode \in KnownModes]_vars

\* C20: every line read is answered by exactly one line before the next is
\* read: whenever the script is about to read, it has written ready and one
\* line per line read.  (Refuted: a method other than effect and buzz is
\* answered by nothing, and an unknown mode by two lines.)
C20_OneLinePerLine ==
    led_pc = "wait" => Len(led_out) = 1 + led_nread

\* C17: print_text sends its formatting and text commands only after
\* _check_paper() returned True; when it returned False print_text raises
\* 'Paper out - unable to print', main answers the line with that error, and
\* the only _send print_text has made is the one of the DLE EOT 4 request.
CheckReturned == Returned /\ Top.fn = "print_text" /\ Top.at = 1
PaperOutRaised == flow = "raise" /\ exc = "PaperOut"
C17_PaperState ==
    /\ \A k \in 2..Len(stack) :
          stack[k].fn = "_send" =>
              /\ stack[k - 1].fn = "print_text" =>
                    stack[k - 1].at = 2 /\ stack[k].cmds = TextCommands(stack[k - 1].arg)
              /\ stack[k - 1].fn = "_check_paper" => stack[k].cmds = << <<16, 4, 4>> >>
    /\ \A k \in 1..Len(stack) :
          stack[k].fn = "_check_paper" => k > 1 /\ stack[k - 1].fn = "print_text"
                                                /\ stack[k - 1].at = 1
    /\ PaperOutRaised => AtMain("m_h1") /\ cmd.key = "text"
C17_PaperStep ==
    /\ (CheckReturned /\ ~rv) => stack' = Below /\ flow' = "raise" /\ exc' = "PaperOut"
    /\ (CheckReturned /\ rv) => exc' # "PaperOut"
    /\ PaperOutRaised =>
          out'[Me] = Append(out[Me], [status |-> "error",
                                      message |-> "Paper out - unable to print"])
C17_Paper == []C17_PaperState /\ [][C17_PaperStep]_vars

C17_PaperReached ==
    /\ pc[Me] = "m_read" /\ cmd.key = "text" /\ out[Me] # <<>>
    /\ out[Me][Len(out[Me])] = [status |-> "error", message |-> "Paper out - unable to print"]

\* C18: paper_feed clamps 'space' to lines in 1..255 and sends ESC J n with
\* n = 24 * lines and ESC d lines, every byte of both commands in 0..255,
\* without raising.  (Refuted: for lines >= 11 the dots 24 * lines exceed
\* 255 and bytes([dots]) raises ValueError before anything is sent.)
FeedStarts == Running1 /\ Top.fn = "paper_feed" /\ Top.at = 0
C18_FeedBytes ==
    [][FeedStarts =>
          /\ FeedLines(Top.arg) \in 1..255
          /\ \A c \in 1..Len(FeedCommands(Top.arg)) :
                \A k \in 1..Len(FeedCommands(Top.arg)[c]) :
                    FeedCommands(Top.arg)[c][k] \in 0..255
          /\ exc' # "ByteRange"]_vars

\* C19: the raster data print_image sends packs each row of the image left
\* to right, 8 pixels per byte, most significant bit first, a bit set
\* exactly for a black pixel; the width is padded to a multiple of 8 with 0
\* bits; the data has (padded width / 8) * height bytes; the GS v 0 header
\* carries width_bytes and height as xL xH yL yH; width_bytes is at most 72.
ImageSent == probe /\ stack = <<>> /\ flow = "ret" /\ cmd.key = "image"
SentHeader == SubSeq(wire, 4, 6)
SentData == Concat(SubSeq(wire, 7, Len(wire) - 2))
BitOf(byte, j) == (byte \div (2 ^ (7 - j))) % 2
C19_Raster ==
    ImageSent =>
        LET w == ImgWidth(cmd)
            h == ImgHeight(cmd)
            wb == (w + 7) \div 8
        IN  /\ wb <= 72
            /\ SentHeader = << <<29, 118, 48, 0>>, <<wb % 256, wb \div 256>>,
                               <<h % 256, h \div 256>> >>
            /\ Len(SentData) = wb * h
            /\ \A y \in 1..h : \A b \in 0..(wb - 1) : \A j \in 0..7 :
                  BitOf(SentData[(y - 1) * wb + b + 1], j) = 1
                     <=> /\ 8 * b + j + 1 <= w
                         /\ ImgPixel(cmd, 8 * b + j + 1, y) = 0

C19_RasterReached ==
    /\ ImageSent
    /\ SrcWidth(cmd) = 9 /\ Len(SentData) = 2 * (1 + MaxImgHeight)
    /\ SentData[1] = 170 /\ SentData[2] = 128

====
